---- MODULE Spec2Model ----
(***************************************************************************)
(* A model of the D3money library (package money): the currency registry   *)
(* (CurrencyCollection), the Value arithmetic and comparison methods, the  *)
(* split algorithm and the data bindings (JSON, binary, text, database).   *)
(***************************************************************************)
EXTENDS Integers, Sequences, FiniteSets, TLC

VARIABLES
    cc,     \* the CurrencyCollection in scope (the package variable Currencies)
    args,   \* the arguments the next method call is made with
    ret,    \* what the last method call returned
    dst,    \* the destination Value of the decoders (the receiver *Value)
    mutex   \* the collection's sync.RWMutex: its writer and its readers

vars == <<cc, args, ret, dst, mutex>>

(***************************************************************************)
(* Bounds of the model.                                                    *)
(***************************************************************************)
MaxBatch == 2        \* longest argument list of one Add call
MaxRegistered == 3   \* the registry is not grown beyond this many currencies
MaxCoef == 5         \* amounts have a value of -MaxCoef..MaxCoef
MaxExp == 1          \* and an exponent of -MaxExp..MaxExp
MaxParts == 4        \* largest number of parts asked of a split
MaxValues == 2       \* longest list of values given to Sum

(***************************************************************************)
(* Currencies.  A Currency is an interface value holding a pointer, so a   *)
(* currency is modelled by the name of its instance and compared by it.    *)
(* testCurrency1 .. testCurrencyIllegal1 are the instances of              *)
(* value_test.go.  The instances after them are further implementations   *)
(* of the interface, chosen as inputs: none of the test instances collides *)
(* with testCurrency1 inside one standard on the numeric code alone or on  *)
(* the code alone, none has a negative unique ID, and none has a smallest  *)
(* unit of 1 or of 0.                                                      *)
(***************************************************************************)
Nil == "nil"

CurrencyDef ==
    [ testCurrency1 |->
        [standard |-> "FOO", code |-> "BAR", uniqueCode |-> "FOO-BAR", numericCode |-> 1, uniqueID |-> 1,
         smallestUnit |-> [value |-> 1, exp |-> -2], noSmallestUnitCurrency |-> FALSE],
      testCurrencyCollision1 |->   \* collides with testCurrency1 on its code
        [standard |-> "FOZ", code |-> "BAR", uniqueCode |-> "FOZ-BAR", numericCode |-> 2, uniqueID |-> 2,
         smallestUnit |-> [value |-> 1, exp |-> -2], noSmallestUnitCurrency |-> FALSE],
      testCurrencyCollision2 |->   \* collides with testCurrency1 on its code and unique code
        [standard |-> "FOO", code |-> "BAR", uniqueCode |-> "FOO-BAR", numericCode |-> 3, uniqueID |-> 3,
         smallestUnit |-> [value |-> 1, exp |-> -2], noSmallestUnitCurrency |-> FALSE],
      testCurrencyCollision3 |->   \* collides with testCurrency1 on its unique ID
        [standard |-> "FOZ", code |-> "BAZ", uniqueCode |-> "FOZ-BAZ", numericCode |-> 4, uniqueID |-> 1,
         smallestUnit |-> [value |-> 1, exp |-> -2], noSmallestUnitCurrency |-> FALSE],
      testCurrencyCollision4 |->   \* collides with testCurrency1 on its numeric code
        [standard |-> "FOZ", code |-> "BAZ", uniqueCode |-> "FOZ-BAZ", numericCode |-> 1, uniqueID |-> 5,
         smallestUnit |-> [value |-> 1, exp |-> -2], noSmallestUnitCurrency |-> FALSE],
      testCurrencyIllegal1 |->     \* variant of testCurrency1 with the illegal unique ID 0
        [standard |-> "FOO", code |-> "BAR", uniqueCode |-> "FOO-BAR", numericCode |-> 1, uniqueID |-> 0,
         smallestUnit |-> [value |-> 1, exp |-> -2], noSmallestUnitCurrency |-> FALSE],
      testCurrencyIllegal4 |->     \* variant of testCurrency1 with an illegal smallest unit value
        [standard |-> "FOO", code |-> "BAR", uniqueCode |-> "FOO-BAR", numericCode |-> 1, uniqueID |-> 1,
         smallestUnit |-> [value |-> -1, exp |-> 0], noSmallestUnitCurrency |-> FALSE],
      testCurrencyIllegal5 |->     \* variant of testCurrency1 whose smallest unit has no currency
        [standard |-> "FOO", code |-> "BAR", uniqueCode |-> "FOO-BAR", numericCode |-> 1, uniqueID |-> 1,
         smallestUnit |-> [value |-> 1, exp |-> -1], noSmallestUnitCurrency |-> TRUE],
      currencySameNumericCode |->  \* of testCurrency1's standard, with its numeric code alone
        [standard |-> "FOO", code |-> "BAZ", uniqueCode |-> "FOO-BAZ", numericCode |-> 1, uniqueID |-> 6,
         smallestUnit |-> [value |-> 1, exp |-> -2], noSmallestUnitCurrency |-> FALSE],
      currencySameCode |->         \* of testCurrency1's standard, with its code alone
        [standard |-> "FOO", code |-> "BAR", uniqueCode |-> "FOO-BAR2", numericCode |-> 7, uniqueID |-> 7,
         smallestUnit |-> [value |-> 1, exp |-> -2], noSmallestUnitCurrency |-> FALSE],
      currencyNegativeID |->       \* a negative unique ID
        [standard |-> "FOO", code |-> "QUX", uniqueCode |-> "FOO-QUX", numericCode |-> 8, uniqueID |-> -2,
         smallestUnit |-> [value |-> 1, exp |-> -2], noSmallestUnitCurrency |-> FALSE],
      currencyWholeUnit |->        \* a smallest unit of 1, as that of ISO4217-VND
        [standard |-> "FOO", code |-> "VND", uniqueCode |-> "FOO-VND", numericCode |-> 9, uniqueID |-> 9,
         smallestUnit |-> [value |-> 1, exp |-> 0], noSmallestUnitCurrency |-> FALSE],
      currencyNoUnit |->           \* a smallest unit of 0: there is no smallest unit
        [standard |-> "FOO", code |-> "XAU", uniqueCode |-> "FOO-XAU", numericCode |-> 10, uniqueID |-> 10,
         smallestUnit |-> [value |-> 0, exp |-> 0], noSmallestUnitCurrency |-> FALSE] ]

\* The currencies the registry is given: testCurrencyIllegal4 and
\* testCurrencyIllegal5 have the identifiers of testCurrency1, and the last
\* two instances collide with no other.
CurrencyPool ==
    DOMAIN CurrencyDef
        \ {"testCurrencyIllegal4", "testCurrencyIllegal5", "currencyWholeUnit", "currencyNoUnit"}

Standard(c) == CurrencyDef[c].standard
UniqueID(c) == CurrencyDef[c].uniqueID
UniqueCode(c) == CurrencyDef[c].uniqueCode
NumericCode(c) == CurrencyDef[c].numericCode
Code(c) == CurrencyDef[c].code

\* The smallest unit of a currency: a Value in the currency, or in none.
SmallestUnit(c) ==
    [ amount |-> CurrencyDef[c].smallestUnit,
      currency |-> IF CurrencyDef[c].noSmallestUnitCurrency THEN Nil ELSE c ]

Standards == {"", "FOO"}

(***************************************************************************)
(* Errors.  NoError is Go's nil error.                                     *)
(***************************************************************************)
NoError == [kind |-> "nil"]

Errorf(msg) == [kind |-> "errorString", msg |-> msg]

ErrorDifferentCurrencies(c1, c2) == [kind |-> "ErrorDifferentCurrencies", c1 |-> c1, c2 |-> c2]

ErrorCantFindUniqueID(uniqueID) == [kind |-> "ErrorCantFindUniqueID", uniqueID |-> uniqueID]

ErrorCantFindUniqueCode(uniqueCode) == [kind |-> "ErrorCantFindUniqueCode", uniqueCode |-> uniqueCode]

ErrorInvalidCurrency(msg) == [kind |-> "ErrorInvalidCurrency", msg |-> msg]

\* fmt.Errorf(msg + ": %w", err): an error that wraps err.
WrapError(msg, err) == [kind |-> "wrapError", msg |-> msg, err |-> err]

\* errors.Unwrap.
Unwrap(err) == IF err.kind = "wrapError" THEN err.err ELSE NoError

(***************************************************************************)
(* Go maps.  A map is a function on its keys; a nil map is NilMap.         *)
(***************************************************************************)
EmptyMap == [isNil |-> FALSE, kv |-> <<>>]

NilMap == [isNil |-> TRUE, kv |-> <<>>]

MapFound(m, k) == k \in DOMAIN m.kv

MapGet(m, k) == IF k \in DOMAIN m.kv THEN m.kv[k] ELSE Nil

MapPut(m, k, c) == [m EXCEPT !.kv = [x \in (DOMAIN m.kv) \cup {k} |-> IF x = k THEN c ELSE m.kv[x]]]

(***************************************************************************)
(* sync.RWMutex: the goroutine that holds the lock for writing (NoWriter   *)
(* when none does) and the goroutines that hold it for reading.            *)
(***************************************************************************)
NoWriter == "none"

Unlocked == [writer |-> NoWriter, readers |-> {}]

\* A Lock that does not wait.
CanLockAlways(m) == TRUE

\* Lock returns once no goroutine holds the lock.
CanLock(m) == m.writer = NoWriter /\ m.readers = {}

\* A Lock that leaves the lock free.
LockNotKept(m, p) == m

Lock(m, p) == [m EXCEPT !.writer = p]

Unlock(m, p) == [m EXCEPT !.writer = NoWriter]

\* An RLock that does not wait for the writer.
CanRLockAlways(m) == TRUE

\* RLock returns once no goroutine holds the lock for writing.
CanRLock(m) == m.writer = NoWriter

RLock(m, p) == [m EXCEPT !.readers = @ \cup {p}]

RUnlock(m, p) == [m EXCEPT !.readers = @ \ {p}]

(***************************************************************************)
(* The currency registry.                                                  *)
(***************************************************************************)
\* The lookups.
All(col) == col.all

ByUniqueID(col, uniqueID) == MapGet(col.byUniqueID, uniqueID)

ByUniqueCode(col, uniqueCode) == MapGet(col.byUniqueCode, uniqueCode)

ByNumericCode(col, numericCode) ==
    IF ~col.byNumericCode.isNil THEN MapGet(col.byNumericCode, numericCode) ELSE Nil

\* A lookup by plain code that works on registries without standard lock too.
ByCodeAnyRegistry(col, code) ==
    IF \E c \in col.hasCurrency : Code(c) = code
    THEN CHOOSE c \in col.hasCurrency : Code(c) = code
    ELSE Nil

ByCode(col, code) ==
    IF ~col.byCode.isNil THEN MapGet(col.byCode, code) ELSE Nil

\* The checks of add: whether the collection refuses the standard of c, and
\* whether an index holds another currency under a key of c.
\* A registry that admits every standard.
standardAlwaysAllowed(col, c) == FALSE

standardNotAllowed(col, c) ==
    col.currencyStandard # "" /\ col.currencyStandard # Standard(c)

\* A registry that misses the check of the unique ID.
uniqueIDNeverCollides(col, c) == FALSE

collidesByUniqueID(col, c) ==
    MapFound(col.byUniqueID, UniqueID(c)) /\ MapGet(col.byUniqueID, UniqueID(c)) # c

\* A registry that misses the check of the unique code.
uniqueCodeNeverCollides(col, c) == FALSE

collidesByUniqueCode(col, c) ==
    MapFound(col.byUniqueCode, UniqueCode(c)) /\ MapGet(col.byUniqueCode, UniqueCode(c)) # c

\* A check that finds no collision of numeric codes.
numericCodeNeverCollides(col, c) == FALSE

collidesByNumericCode(col, c) ==
    /\ ~col.byNumericCode.isNil
    /\ MapFound(col.byNumericCode, NumericCode(c))
    /\ MapGet(col.byNumericCode, NumericCode(c)) # c

\* A registry that polices the plain code whether it is locked or not.
collidesByCodeUnlocked(col, c) ==
    \E d \in col.hasCurrency : d # c /\ Code(d) = Code(c)

collidesByCode(col, c) ==
    /\ ~col.byCode.isNil
    /\ MapFound(col.byCode, Code(c))
    /\ MapGet(col.byCode, Code(c)) # c

\* The error add returns for currency c, NoError when it has none to return.
addCheck(col, c) ==
    IF standardNotAllowed(col, c)
    THEN Errorf("currency standard not allowed in this collection")
    ELSE IF collidesByUniqueID(col, c)
    THEN Errorf("same unique ID as the already existing currency")
    ELSE IF collidesByUniqueCode(col, c)
    THEN Errorf("same unique code as the already existing currency")
    ELSE IF collidesByNumericCode(col, c)
    THEN Errorf("same numeric code as the already existing currency")
    ELSE IF collidesByCode(col, c)
    THEN Errorf("same code as the already existing currency")
    ELSE NoError

\* An insertion that does not look whether the currency is already in the set.
addInsertAlways(col, c) ==
    [col EXCEPT
        !.all = Append(@, c),
        !.hasCurrency = @ \cup {c},
        !.byUniqueID = MapPut(@, UniqueID(c), c),
        !.byUniqueCode = MapPut(@, UniqueCode(c), c),
        !.byNumericCode = IF ~@.isNil THEN MapPut(@, NumericCode(c), c) ELSE @,
        !.byCode = IF ~@.isNil THEN MapPut(@, Code(c), c) ELSE @]

\* The insertion add makes once its checks have passed.
addInsert(col, c) ==
    IF c \in col.hasCurrency
    THEN col
    ELSE [col EXCEPT
            !.all = Append(@, c),
            !.hasCurrency = @ \cup {c},
            !.byUniqueID = MapPut(@, UniqueID(c), c),
            !.byUniqueCode = MapPut(@, UniqueCode(c), c),
            !.byNumericCode = IF ~@.isNil THEN MapPut(@, NumericCode(c), c) ELSE @,
            !.byCode = IF ~@.isNil THEN MapPut(@, Code(c), c) ELSE @]

\* An add that inserts the currency before it checks it.
addInsertsFirst(col, c) ==
    [cc |-> addInsert(col, c), err |-> addCheck(col, c)]

\* An add that puts the currency on the list before it checks it.
addListsFirst(col, c) ==
    LET err == addCheck(col, c)
    IN  IF err # NoError
        THEN [cc |-> [col EXCEPT !.all = Append(@, c)], err |-> err]
        ELSE [cc |-> addInsert(col, c), err |-> NoError]

\* add: the collection after the call and the error returned.
add(col, c) ==
    LET err == addCheck(col, c)
    IN  IF err # NoError
        THEN [cc |-> col, err |-> err]
        ELSE [cc |-> addInsert(col, c), err |-> NoError]

\* Add's loop from position i of its arguments on: the collection after the
\* call, the error returned and the position of the currency that failed (0
\* when none did).
RECURSIVE AddFrom(_, _, _)
AddFrom(col, currencies, i) ==
    IF i > Len(currencies)
    THEN [cc |-> col, err |-> NoError, failedAt |-> 0]
    ELSE LET r == add(col, currencies[i])
         IN  IF r.err # NoError
             THEN [cc |-> r.cc, err |-> r.err, failedAt |-> i]
             ELSE AddFrom(r.cc, currencies, i + 1)

AddResult(col, currencies) == AddFrom(col, currencies, 1)

\* NewCurrencyCollection before it adds the lists it is given.
EmptyCollection(currencyStandard) ==
    [ currencyStandard |-> currencyStandard,
      all |-> <<>>,
      hasCurrency |-> {},
      byUniqueID |-> EmptyMap,
      byUniqueCode |-> EmptyMap,
      byNumericCode |-> IF currencyStandard # "" THEN EmptyMap ELSE NilMap,
      byCode |-> IF currencyStandard # "" THEN EmptyMap ELSE NilMap ]

\* NewCurrencyCollection of one list: the collection, or no collection and
\* the error of the Add that failed.
NewCurrencyCollection(currencyStandard, listOfCurrencies) ==
    LET r == AddResult(EmptyCollection(currencyStandard), listOfCurrencies)
    IN  IF r.err # NoError
        THEN [cc |-> Nil, err |-> r.err]
        ELSE [cc |-> r.cc, err |-> NoError]

(***************************************************************************)
(* Decimals (github.com/shopspring/decimal): a decimal is value * 10^exp   *)
(* with an integer value and an integer exponent.                          *)
(***************************************************************************)
Dec(value, exp) == [value |-> value, exp |-> exp]

DecZero == Dec(0, 0)

AbsInt(i) == IF i < 0 THEN -i ELSE i

SignInt(i) == IF i < 0 THEN -1 ELSE IF i > 0 THEN 1 ELSE 0

MinInt(i, j) == IF i < j THEN i ELSE j

\* Division of integers that truncates towards zero (math/big's Int.QuoRem).
TQuo(a, b) == SignInt(a) * SignInt(b) * (AbsInt(a) \div AbsInt(b))

TRem(a, b) == a - b * TQuo(a, b)

\* The value of d at the exponent exp <= d.exp.
Rescaled(d, exp) == d.value * 10^(d.exp - exp)

DecCmp(d, d2) ==
    LET e == MinInt(d.exp, d2.exp)
    IN  SignInt(Rescaled(d, e) - Rescaled(d2, e))

DecEqual(d, d2) == DecCmp(d, d2) = 0

DecGreaterThan(d, d2) == DecCmp(d, d2) = 1

DecGreaterThanOrEqual(d, d2) == DecCmp(d, d2) \in {0, 1}

DecLessThan(d, d2) == DecCmp(d, d2) = -1

DecLessThanOrEqual(d, d2) == DecCmp(d, d2) \in {-1, 0}

DecAdd(d, d2) ==
    LET e == MinInt(d.exp, d2.exp)
    IN  Dec(Rescaled(d, e) + Rescaled(d2, e), e)

DecSub(d, d2) ==
    LET e == MinInt(d.exp, d2.exp)
    IN  Dec(Rescaled(d, e) - Rescaled(d2, e), e)

DecMul(d, d2) == Dec(d.value * d2.value, d.exp + d2.exp)

DecNeg(d) == Dec(-d.value, d.exp)

DecAbs(d) == Dec(AbsInt(d.value), d.exp)

DecSign(d) == SignInt(d.value)

\* A test for zero that every decimal passes.
DecIsZeroAlways(d) == TRUE

DecIsZero(d) == d.value = 0

DecIsInteger(d) == d.exp >= 0 \/ TRem(d.value, 10^(-d.exp)) = 0

DecIntPart(d) == IF d.exp >= 0 THEN d.value * 10^d.exp ELSE TQuo(d.value, 10^(-d.exp))

DecNewFromInt(i) == Dec(i, 0)

\* d.QuoRem(d2, 0): the quotient truncated to an integer and the remainder.
DecQuoRem0(d, d2) ==
    LET e == d.exp - d2.exp
        aa == IF e < 0 THEN d.value ELSE d.value * 10^e
        bb == IF e < 0 THEN d2.value * 10^(-e) ELSE d2.value
        scalerest == IF e < 0 THEN d.exp ELSE d2.exp
    IN  [q |-> Dec(TQuo(aa, bb), 0), r |-> Dec(TRem(aa, bb), scalerest)]

(***************************************************************************)
(* Values: an amount and a currency, which is Nil for no currency.         *)
(***************************************************************************)
Val(amount, currency) == [amount |-> amount, currency |-> currency]

ZeroValue == Val(DecZero, Nil)

NoArgs == [op |-> "none"]

NoCall == [op |-> "none"]

\* The comparison methods and their Detailed variants.
Equal(v, comp) ==
    IF v.currency # comp.currency THEN FALSE ELSE DecEqual(v.amount, comp.amount)

EqualDetailed(v, comp) ==
    IF v.currency # comp.currency
    THEN [b |-> FALSE, err |-> ErrorDifferentCurrencies(v.currency, comp.currency)]
    ELSE [b |-> DecEqual(v.amount, comp.amount), err |-> NoError]

GreaterThan(v, comp) ==
    IF v.currency # comp.currency THEN FALSE ELSE DecGreaterThan(v.amount, comp.amount)

GreaterThanDetailed(v, comp) ==
    IF v.currency # comp.currency
    THEN [b |-> FALSE, err |-> ErrorDifferentCurrencies(v.currency, comp.currency)]
    ELSE [b |-> DecGreaterThan(v.amount, comp.amount), err |-> NoError]

\* A comparison that does not look at the currencies.
GreaterThanOrEqualAnyCurrency(v, comp) == DecGreaterThanOrEqual(v.amount, comp.amount)

GreaterThanOrEqual(v, comp) ==
    IF v.currency # comp.currency THEN FALSE ELSE DecGreaterThanOrEqual(v.amount, comp.amount)

GreaterThanOrEqualDetailed(v, comp) ==
    IF v.currency # comp.currency
    THEN [b |-> FALSE, err |-> ErrorDifferentCurrencies(v.currency, comp.currency)]
    ELSE [b |-> DecGreaterThanOrEqual(v.amount, comp.amount), err |-> NoError]

LessThan(v, comp) ==
    IF v.currency # comp.currency THEN FALSE ELSE DecLessThan(v.amount, comp.amount)

LessThanDetailed(v, comp) ==
    IF v.currency # comp.currency
    THEN [b |-> FALSE, err |-> ErrorDifferentCurrencies(v.currency, comp.currency)]
    ELSE [b |-> DecLessThan(v.amount, comp.amount), err |-> NoError]

LessThanOrEqual(v, comp) ==
    IF v.currency # comp.currency THEN FALSE ELSE DecLessThanOrEqual(v.amount, comp.amount)

LessThanOrEqualDetailed(v, comp) ==
    IF v.currency # comp.currency
    THEN [b |-> FALSE, err |-> ErrorDifferentCurrencies(v.currency, comp.currency)]
    ELSE [b |-> DecLessThanOrEqual(v.amount, comp.amount), err |-> NoError]

\* An Add that does not look at the currencies.
ValueAddAnyCurrency(v, v2) ==
    [val |-> Val(DecAdd(v.amount, v2.amount), v.currency), err |-> NoError]

\* A Mul that accepts two operands of the same currency.
ValueMulSameCurrency(v, v2) ==
    IF v.currency # Nil /\ v2.currency # Nil /\ v.currency # v2.currency
    THEN [val |-> ZeroValue, err |-> Errorf("can't multiply two values with currencies")]
    ELSE [val |-> Val(DecMul(v.amount, v2.amount), IF v.currency # Nil THEN v.currency ELSE v2.currency),
          err |-> NoError]

\* The arithmetic methods: the Value returned and the error.
ValueAdd(v, v2) ==
    IF v.currency # v2.currency
    THEN [val |-> ZeroValue, err |-> ErrorDifferentCurrencies(v.currency, v2.currency)]
    ELSE [val |-> Val(DecAdd(v.amount, v2.amount), v.currency), err |-> NoError]

ValueSub(v, v2) ==
    IF v.currency # v2.currency
    THEN [val |-> ZeroValue, err |-> ErrorDifferentCurrencies(v.currency, v2.currency)]
    ELSE [val |-> Val(DecSub(v.amount, v2.amount), v.currency), err |-> NoError]

ValueMul(v, v2) ==
    IF v.currency # Nil /\ v2.currency # Nil
    THEN [val |-> ZeroValue, err |-> Errorf("can't multiply two values with currencies")]
    ELSE LET currency == IF v.currency # Nil THEN v.currency
                         ELSE IF v2.currency # Nil THEN v2.currency
                         ELSE Nil
         IN  [val |-> Val(DecMul(v.amount, v2.amount), currency), err |-> NoError]

\* Sum's loop from position i of values on, with the total so far.
RECURSIVE SumFrom(_, _, _, _)
SumFrom(first, values, i, total) ==
    IF i > Len(values)
    THEN [val |-> Val(total, first.currency), err |-> NoError]
    ELSE IF first.currency # values[i].currency
    THEN [val |-> ZeroValue, err |-> ErrorDifferentCurrencies(first.currency, values[i].currency)]
    ELSE SumFrom(first, values, i + 1, DecAdd(total, values[i].amount))

\* A Sum that compares the currency of first with that of the first value only.
SumComparingFirstOnly(first, values) ==
    IF values # <<>> /\ first.currency # values[1].currency
    THEN [val |-> ZeroValue, err |-> ErrorDifferentCurrencies(first.currency, values[1].currency)]
    ELSE SumFrom(first, [i \in 1..Len(values) |-> Val(values[i].amount, first.currency)], 1, first.amount)

Sum(first, values) == SumFrom(first, values, 1, first.amount)

Sign(v) == DecSign(v.amount)

IsNegative(v) == Sign(v) = -1

Decimal(v) == v.amount

\* A split that keeps the sign of the smallest unit it is given.
smallestUnitUnsigned(v, smallestUnit) == Decimal(smallestUnit)

\* The smallest unit with the sign of the value, so that the number of
\* smallest units to distribute is never negative.
smallestUnitSigned(v, smallestUnit) ==
    IF IsNegative(v) THEN DecNeg(Decimal(smallestUnit)) ELSE Decimal(smallestUnit)

\* A split that puts the larger parts last.
splitValuesLargerLast(n, largerParts, value1, value2) ==
    [i \in 1..n |-> IF i - 1 < n - largerParts THEN value1 ELSE value2]

\* A split that returns a list of one part less.
splitValuesOneShort(n, largerParts, value1, value2) ==
    [i \in 1..(n - 1) |-> IF i - 1 >= largerParts THEN value1 ELSE value2]

\* The list of n values split returns: value2 in the first largerParts
\* places, value1 in the others (Go's index i is place i + 1).
splitValues(n, largerParts, value1, value2) ==
    [i \in 1..n |-> IF i - 1 >= largerParts THEN value1 ELSE value2]

SplitWithSmallestUnit(v, n, smallestUnit) ==
    IF n <= 0
    THEN [values |-> <<>>, err |-> Errorf("number of parts must not be negative")]
    ELSE IF Sign(smallestUnit) <= 0
    THEN [values |-> <<>>, err |-> Errorf("smallest unit is outside the allowed range")]
    ELSE IF smallestUnit.currency # v.currency
    THEN [values |-> <<>>, err |-> ErrorDifferentCurrencies(v.currency, smallestUnit.currency)]
    ELSE LET sus == smallestUnitSigned(v, smallestUnit)
             units == DecQuoRem0(v.amount, sus)
         IN  IF ~DecIsZero(units.r)
             THEN [values |-> <<>>, err |-> Errorf("value is not a multiple of the smallest unit")]
             ELSE LET part == DecQuoRem0(units.q, DecNewFromInt(n))
                      largerParts == DecIntPart(part.r)
                      value1 == Val(DecMul(part.q, sus), v.currency)
                      value2 == Val(DecAdd(value1.amount, sus), v.currency)
                  IN  IF ~DecIsInteger(part.r)
                      THEN [values |-> <<>>, err |-> [kind |-> "panic"]]
                      ELSE [values |-> splitValues(n, largerParts, value1, value2), err |-> NoError]

\* A Split that takes a hundredth for the smallest unit of no currency.
SplitByHundredths(v, n) ==
    SplitWithSmallestUnit(v, n, IF v.currency # Nil THEN SmallestUnit(v.currency) ELSE Val(Dec(1, -2), Nil))

\* Split: by the smallest unit of the value's currency, or by the zero Value.
Split(v, n) ==
    SplitWithSmallestUnit(v, n, IF v.currency # Nil THEN SmallestUnit(v.currency) ELSE ZeroValue)

(***************************************************************************)
(* Strings.  A string is a sequence of symbols: a symbol is a character,   *)
(* or a whole word (a unique code) that holds no separator.                *)
(***************************************************************************)
NBSP == "NBSP"   \* the non-breaking space U+00A0

DigitChars == <<"0", "1", "2", "3", "4", "5", "6", "7", "8", "9">>

IsDigit(ch) == \E i \in 1..10 : DigitChars[i] = ch

DigitValue(ch) == (CHOOSE i \in 1..10 : DigitChars[i] = ch) - 1

\* strconv.Itoa of a number that is not negative.
RECURSIVE NatString(_)
NatString(i) ==
    IF i < 10 THEN <<DigitChars[i + 1]>> ELSE Append(NatString(i \div 10), DigitChars[(i % 10) + 1])

IntString(i) == IF i < 0 THEN <<"-">> \o NatString(-i) ELSE NatString(i)

\* The number a sequence of digits spells.
RECURSIVE DigitsValue(_)
DigitsValue(str) ==
    IF str = <<>> THEN 0
    ELSE 10 * DigitsValue(SubSeq(str, 1, Len(str) - 1)) + DigitValue(str[Len(str)])

AllDigits(str) == \A i \in 1..Len(str) : IsDigit(str[i])

\* The string of Go that the symbols spell.
RECURSIVE Spelled(_)
Spelled(str) == IF str = <<>> THEN "" ELSE str[1] \o Spelled(Tail(str))

\* A replacement that leaves the string as it is.
StringsReplaceNone(str, old, new) == str

\* strings.ReplaceAll(str, old, new) for symbols old and new.
StringsReplaceAll(str, old, new) == [i \in 1..Len(str) |-> IF str[i] = old THEN new ELSE str[i]]

\* strings.Split(str, sep): the fields between the separators.
RECURSIVE StringsSplit(_, _)
StringsSplit(str, sep) ==
    IF \A i \in 1..Len(str) : str[i] # sep
    THEN <<str>>
    ELSE LET at == CHOOSE i \in 1..Len(str) : str[i] = sep /\ \A j \in 1..(i - 1) : str[j] # sep
         IN  <<SubSeq(str, 1, at - 1)>> \o StringsSplit(SubSeq(str, at + 1, Len(str)), sep)

\* strings.Trim(str, cutset): str without its leading and trailing symbols
\* of the cutset.
RECURSIVE StringsTrim(_, _)
StringsTrim(str, cutset) ==
    IF str = <<>> THEN str
    ELSE IF str[1] \in cutset THEN StringsTrim(Tail(str), cutset)
    ELSE IF str[Len(str)] \in cutset THEN StringsTrim(SubSeq(str, 1, Len(str) - 1), cutset)
    ELSE str

\* strconv.ParseInt(str, 10, 32).
ParseInt32(str) ==
    LET signed == str # <<>> /\ str[1] \in {"+", "-"}
        digits == IF signed THEN Tail(str) ELSE str
    IN  IF digits = <<>> \/ ~AllDigits(digits) \/ Len(digits) > 9
        THEN [i |-> 0, err |-> Errorf("strconv.ParseInt: invalid syntax or out of range")]
        ELSE [i |-> IF signed /\ str[1] = "-" THEN -DigitsValue(digits) ELSE DigitsValue(digits),
              err |-> NoError]

(***************************************************************************)
(* The text form of a decimal.                                             *)
(***************************************************************************)
Zeros(n) == [i \in 1..n |-> "0"]

\* The fractional digits without their trailing zeros.
RECURSIVE TrimTrailingZeros(_)
TrimTrailingZeros(str) ==
    IF str # <<>> /\ str[Len(str)] = "0" THEN TrimTrailingZeros(SubSeq(str, 1, Len(str) - 1)) ELSE str

\* decimal.Decimal.String.
DecString(d) ==
    IF d.exp >= 0
    THEN IntString(d.value * 10^d.exp)
    ELSE LET str == NatString(AbsInt(d.value))
             intPart == IF Len(str) > -d.exp THEN SubSeq(str, 1, Len(str) + d.exp) ELSE <<"0">>
             fractionalPart ==
                 TrimTrailingZeros(
                     IF Len(str) > -d.exp
                     THEN SubSeq(str, Len(str) + d.exp + 1, Len(str))
                     ELSE Zeros(-d.exp - Len(str)) \o str)
             number == IF fractionalPart # <<>> THEN intPart \o <<".">> \o fractionalPart ELSE intPart
         IN  IF d.value < 0 THEN <<"-">> \o number ELSE number

\* decimal.NewFromString, for strings without an exponent part.
DecNewFromString(str) ==
    LET signed == str # <<>> /\ str[1] \in {"+", "-"}
        number == IF signed THEN Tail(str) ELSE str
        parts == StringsSplit(number, ".")
        intString == IF Len(parts) = 2 THEN parts[1] \o parts[2] ELSE number
        exp == IF Len(parts) = 2 THEN -Len(parts[2]) ELSE 0
    IN  IF Len(parts) > 2 \/ intString = <<>> \/ ~AllDigits(intString)
        THEN [d |-> DecZero, err |-> Errorf("can't convert to decimal")]
        ELSE [d |-> Dec(IF signed /\ str[1] = "-" THEN -DigitsValue(intString) ELSE DigitsValue(intString), exp),
              err |-> NoError]

(***************************************************************************)
(* The binary form of a decimal.  A byte is a number of 0..255.            *)
(***************************************************************************)
\* binary.BigEndian.PutUint32(b, uint32(i)) for an int32 i: the two's
\* complement of a negative i is the complement of the bytes of -i - 1.
Uint32Bytes(u) == <<(u \div 16777216) % 256, (u \div 65536) % 256, (u \div 256) % 256, u % 256>>

\* The four bytes with the least significant byte first.
Int32BytesLittleEndian(i) ==
    IF i >= 0 THEN [k \in 1..4 |-> Uint32Bytes(i)[5 - k]]
    ELSE [k \in 1..4 |-> 255 - Uint32Bytes(-i - 1)[5 - k]]

Int32Bytes(i) ==
    IF i >= 0 THEN Uint32Bytes(i)
    ELSE [k \in 1..4 |-> 255 - Uint32Bytes(-i - 1)[k]]

\* int32(binary.BigEndian.Uint32(b)).
BytesUint31(b) == ((b[1] * 256 + b[2]) * 256 + b[3]) * 256 + b[4]

BytesInt32(b) ==
    IF b[1] < 128 THEN BytesUint31(b)
    ELSE -BytesUint31([k \in 1..4 |-> 255 - b[k]]) - 1

\* The bytes of the magnitude of a big.Int, the most significant first.
RECURSIVE MagnitudeBytes(_)
MagnitudeBytes(n) == IF n = 0 THEN <<>> ELSE Append(MagnitudeBytes(n \div 256), n % 256)

RECURSIVE BytesMagnitude(_)
BytesMagnitude(b) ==
    IF b = <<>> THEN 0 ELSE 256 * BytesMagnitude(SubSeq(b, 1, Len(b) - 1)) + b[Len(b)]

\* big.Int.GobEncode: the version and the sign in one byte, then the magnitude.
BigIntGobEncode(i) == <<2 + (IF i < 0 THEN 1 ELSE 0)>> \o MagnitudeBytes(AbsInt(i))

\* decimal.Decimal.MarshalBinary: the exponent, then the value.
DecMarshalBinary(d) == Int32Bytes(d.exp) \o BigIntGobEncode(d.value)

\* decimal.Decimal.UnmarshalBinary into the decimal d.
DecUnmarshalBinary(d, data) ==
    IF Len(data) < 4
    THEN [d |-> d, err |-> Errorf("error decoding binary: expected at least 4 bytes")]
    ELSE LET exp == BytesInt32(SubSeq(data, 1, 4))
             buf == SubSeq(data, 5, Len(data))
         IN  IF buf = <<>>
             THEN [d |-> Dec(0, exp), err |-> NoError]
             ELSE IF buf[1] \div 2 # 1
             THEN [d |-> Dec(0, exp), err |-> Errorf("error decoding binary: version not supported")]
             ELSE [d |-> Dec((IF buf[1] % 2 = 1 THEN -1 ELSE 1) * BytesMagnitude(Tail(buf)), exp),
                   err |-> NoError]

(***************************************************************************)
(* The data bindings of Value.  A decoder is given the collection          *)
(* Currencies and its receiver v, and returns the receiver after the call  *)
(* and the error.                                                          *)
(***************************************************************************)
\* Value.String: "Amount UniqueCode", or "Amount" without currency.
String(v) ==
    IF v.currency # Nil
    THEN DecString(v.amount) \o <<" ">> \o <<UniqueCode(v.currency)>>
    ELSE DecString(v.amount)

\* parse: the amount, the currency and the error.
parse(str, col, additionalCurrency) ==
    LET splitted == StringsSplit(StringsReplaceAll(str, NBSP, " "), " ")
        curStr == Spelled(splitted[2])
        matchedCurrency ==
            IF additionalCurrency # Nil /\ curStr = UniqueCode(additionalCurrency)
            THEN additionalCurrency
            ELSE ByUniqueCode(col, curStr)
        amount == DecNewFromString(splitted[1])
    IN  IF Len(splitted) > 2
        THEN [amount |-> DecZero, currency |-> Nil, err |-> Errorf("input string contains too many spaces")]
        ELSE IF Len(splitted) = 2 /\ matchedCurrency = Nil
        THEN [amount |-> DecZero, currency |-> Nil, err |-> ErrorCantFindUniqueCode(curStr)]
        ELSE IF amount.err # NoError
        THEN [amount |-> DecZero, currency |-> Nil, err |-> amount.err]
        ELSE [amount |-> amount.d,
              currency |-> IF Len(splitted) = 2 THEN matchedCurrency ELSE Nil,
              err |-> NoError]

\* FromString: the Value and the error.
FromString(col, str) ==
    LET r == parse(str, col, Nil)
    IN  IF r.err # NoError
        THEN [v |-> ZeroValue, err |-> r.err]
        ELSE [v |-> Val(r.amount, r.currency), err |-> NoError]

\* FromStringAndCurrency without the comparison of the matched currency and
\* the given one.
FromStringAndCurrencyUnchecked(col, str, cur) ==
    LET r == parse(str, col, cur)
    IN  IF r.err # NoError
        THEN [v |-> ZeroValue, err |-> r.err]
        ELSE [v |-> Val(r.amount, IF r.currency = Nil THEN cur ELSE r.currency), err |-> NoError]

\* FromStringAndCurrency: the Value and the error.
FromStringAndCurrency(col, str, cur) ==
    LET r == parse(str, col, cur)
        newCur == IF r.currency = Nil THEN cur ELSE r.currency
    IN  IF r.err # NoError
        THEN [v |-> ZeroValue, err |-> r.err]
        ELSE IF newCur # cur
        THEN [v |-> ZeroValue,
              err |-> Errorf("the matched currency of the string doesn't match with the given one")]
        ELSE [v |-> Val(r.amount, newCur), err |-> NoError]

\* A JSON document: malformed, or an object of string members.
JSONObject(members) == [ok |-> TRUE, members |-> members]

JSONMalformed == [ok |-> FALSE, members |-> <<>>]

MarshalJSON(v) ==
    JSONObject([Amount |-> DecString(v.amount),
                Currency |-> IF v.currency # Nil THEN UniqueCode(v.currency) ELSE ""])

UnmarshalJSON(col, v, data) ==
    LET amount == IF "Amount" \in DOMAIN data.members
                  THEN DecNewFromString(data.members.Amount)
                  ELSE [d |-> DecZero, err |-> NoError]
        currency == IF "Currency" \in DOMAIN data.members THEN data.members.Currency ELSE ""
        cur == IF currency # "" THEN ByUniqueCode(col, currency) ELSE Nil
    IN  IF ~data.ok
        THEN [v |-> v, err |-> Errorf("json: syntax error")]
        ELSE IF amount.err # NoError
        THEN [v |-> v, err |-> amount.err]
        ELSE IF currency # "" /\ cur = Nil
        THEN [v |-> v, err |-> ErrorCantFindUniqueCode(currency)]
        ELSE [v |-> Val(amount.d, cur), err |-> NoError]

\* MarshalBinary writing the unique ID without its sign.
MarshalBinaryUnsignedID(v) ==
    Int32Bytes(IF v.currency # Nil THEN AbsInt(UniqueID(v.currency)) ELSE 0) \o DecMarshalBinary(v.amount)

MarshalBinary(v) ==
    Int32Bytes(IF v.currency # Nil THEN UniqueID(v.currency) ELSE 0) \o DecMarshalBinary(v.amount)

UnmarshalBinary(col, v, data) ==
    IF Len(data) < 4
    THEN [v |-> v, err |-> Errorf("error decoding binary: expected at least 4 bytes")]
    ELSE LET uniqueID == BytesInt32(SubSeq(data, 1, 4))
             cur == IF uniqueID = 0 THEN Nil ELSE ByUniqueID(col, uniqueID)
             amount == DecUnmarshalBinary(v.amount, SubSeq(data, 5, Len(data)))
         IN  IF uniqueID # 0 /\ cur = Nil
             THEN [v |-> v, err |-> ErrorCantFindUniqueID(uniqueID)]
             ELSE [v |-> Val(amount.d, cur), err |-> amount.err]

MarshalText(v) == String(v)

UnmarshalText(col, v, text) ==
    LET r == parse(text, col, Nil)
    IN  IF r.err # NoError
        THEN [v |-> v, err |-> WrapError("failed to parse text", r.err)]
        ELSE [v |-> Val(r.amount, r.currency), err |-> NoError]

GobEncode(v) == MarshalBinary(v)

GobDecode(col, v, data) == UnmarshalBinary(col, v, data)

\* Value.Value: the database value "(Amount,UniqueID)", or "(Amount,)".
\* A database value that is the text form of the Value.
DriverValueAsText(v) == String(v)

DriverValue(v) ==
    IF v.currency # Nil
    THEN <<"(">> \o DecString(v.amount) \o <<",">> \o IntString(UniqueID(v.currency)) \o <<")">>
    ELSE <<"(">> \o DecString(v.amount) \o <<",", ")">>

\* Value.Scan of a database value: a string, or a value of another type.
DriverString(str) == [isString |-> TRUE, str |-> str]

DriverOther == [isString |-> FALSE, str |-> <<>>]

Scan(col, v, value) ==
    LET split == StringsSplit(StringsTrim(value.str, {"(", ")"}), ",")
        amountStr == StringsTrim(split[1], {" "})
        curStr == IF Len(split) = 2 THEN StringsTrim(split[2], {" "}) ELSE <<>>
        uniqueID == ParseInt32(curStr)
        currency == IF curStr # <<>> THEN ByUniqueID(col, uniqueID.i) ELSE Nil
        amount == DecNewFromString(amountStr)
    IN  IF ~value.isString
        THEN [v |-> v, err |-> Errorf("incompatible type")]
        ELSE IF Len(split) > 2
        THEN [v |-> v, err |-> Errorf("input string contains too many spaces")]
        ELSE IF curStr # <<>> /\ uniqueID.err # NoError
        THEN [v |-> v, err |-> WrapError("failed to parse currency ID from database field", uniqueID.err)]
        ELSE IF curStr # <<>> /\ currency = Nil
        THEN [v |-> v, err |-> ErrorCantFindUniqueID(uniqueID.i)]
        ELSE IF amount.err # NoError
        THEN [v |-> v, err |-> amount.err]
        ELSE [v |-> Val(amount.d, currency), err |-> NoError]

(***************************************************************************)
(* ValidateCurrency.  Its argument is the record of what the methods of    *)
(* the currency return; the standard, the code and the unique code are     *)
(* sequences of characters.                                                *)
(***************************************************************************)
UpperCaseLetters ==
    {"A", "B", "C", "D", "E", "F", "G", "H", "I", "J", "K", "L", "M",
     "N", "O", "P", "Q", "R", "S", "T", "U", "V", "W", "X", "Y", "Z"}

\* regexFindNonAlphaNumeric.MatchString(str): a character that [^A-Z0-9]
\* matches is in the string.
regexFindNonAlphaNumeric(str) ==
    \E i \in 1..Len(str) : str[i] \notin UpperCaseLetters /\ ~IsDigit(str[i])

\* A check of the symbols that refuses every empty symbol.
symbolsIllegalWhenEmpty(symbol, narrowSymbol) ==
    narrowSymbol = "" \/ symbol = ""

\* The check of the symbol and the narrow symbol.
symbolsIllegal(symbol, narrowSymbol) ==
    narrowSymbol # symbol /\ (narrowSymbol = "" \/ symbol = "")

ValidateCurrency(c) ==
    IF c.uniqueID = 0
    THEN ErrorInvalidCurrency("unique ID is 0. This value is reserved for no currency")
    ELSE IF regexFindNonAlphaNumeric(c.code)
    THEN ErrorInvalidCurrency("code contains illegal character(s)")
    ELSE IF regexFindNonAlphaNumeric(c.standard)
    THEN ErrorInvalidCurrency("standard name contains illegal character(s)")
    ELSE IF c.standard \o <<"-">> \o c.code # c.uniqueCode
    THEN ErrorInvalidCurrency("unique code is not of the form Standard-Code")
    ELSE IF c.hasSmallestUnit /\ c.decimalPlaces < 0
    THEN ErrorInvalidCurrency("currency has smallest unit, but negative decimal places")
    ELSE IF ~c.hasSmallestUnit /\ c.decimalPlaces # -1
    THEN ErrorInvalidCurrency("currency has no smallest unit, but decimal places")
    ELSE IF symbolsIllegal(c.symbol, c.narrowSymbol)
    THEN ErrorInvalidCurrency("symbol and narrow symbol need to be the same, or both non empty")
    ELSE NoError

(***************************************************************************)
(* The registry's specification: a registry is made by                     *)
(* NewCurrencyCollection and grown by Add calls.                           *)
(***************************************************************************)
BatchesOf(n) == UNION {[1..k -> CurrencyPool] : k \in 0..n}

InitialLists == {<<>>, <<"testCurrency1">>}

Init ==
    /\ \E currencyStandard \in Standards, list \in InitialLists :
          /\ NewCurrencyCollection(currencyStandard, list).err = NoError
          /\ cc = NewCurrencyCollection(currencyStandard, list).cc
    /\ args = NoArgs
    /\ ret = NoCall
    /\ dst = ZeroValue
    /\ mutex = Unlocked

Add(currencies) ==
    /\ Len(cc.all) + Len(currencies) <= MaxRegistered
    /\ LET r == AddResult(cc, currencies)
       IN  /\ cc' = r.cc
           /\ ret' = [op |-> "Add", currencies |-> currencies, err |-> r.err, failedAt |-> r.failedAt]
    /\ UNCHANGED <<args, dst, mutex>>

Next ==
    \E currencies \in BatchesOf(MaxBatch) : Add(currencies)

Spec == Init /\ [][Next]_vars

(***************************************************************************)
(* The specification of the arithmetic and the comparisons: two Values are *)
(* drawn and the methods are called on them.                               *)
(***************************************************************************)
Amounts == {Dec(value, exp) : value \in -MaxCoef..MaxCoef, exp \in -MaxExp..MaxExp}

ValuesIn(currencies) == {Val(amount, currency) : amount \in Amounts, currency \in currencies}

ArithCurrencies == {Nil, "testCurrency1", "testCurrencyCollision1"}

InitValue ==
    /\ cc = EmptyCollection("")
    /\ args \in [v : ValuesIn(ArithCurrencies), v2 : ValuesIn(ArithCurrencies)]
    /\ ret = NoCall
    /\ dst = ZeroValue
    /\ mutex = Unlocked

Returns(r) ==
    /\ ret' = r
    /\ UNCHANGED <<cc, args, dst, mutex>>

CallEqual == Returns([op |-> "Equal", b |-> Equal(args.v, args.v2)])

CallEqualDetailed ==
    LET r == EqualDetailed(args.v, args.v2)
    IN  Returns([op |-> "EqualDetailed", b |-> r.b, err |-> r.err])

CallGreaterThan == Returns([op |-> "GreaterThan", b |-> GreaterThan(args.v, args.v2)])

CallGreaterThanDetailed ==
    LET r == GreaterThanDetailed(args.v, args.v2)
    IN  Returns([op |-> "GreaterThanDetailed", b |-> r.b, err |-> r.err])

CallGreaterThanOrEqual ==
    Returns([op |-> "GreaterThanOrEqual", b |-> GreaterThanOrEqual(args.v, args.v2)])

CallGreaterThanOrEqualDetailed ==
    LET r == GreaterThanOrEqualDetailed(args.v, args.v2)
    IN  Returns([op |-> "GreaterThanOrEqualDetailed", b |-> r.b, err |-> r.err])

CallLessThan == Returns([op |-> "LessThan", b |-> LessThan(args.v, args.v2)])

CallLessThanDetailed ==
    LET r == LessThanDetailed(args.v, args.v2)
    IN  Returns([op |-> "LessThanDetailed", b |-> r.b, err |-> r.err])

CallLessThanOrEqual ==
    Returns([op |-> "LessThanOrEqual", b |-> LessThanOrEqual(args.v, args.v2)])

CallLessThanOrEqualDetailed ==
    LET r == LessThanOrEqualDetailed(args.v, args.v2)
    IN  Returns([op |-> "LessThanOrEqualDetailed", b |-> r.b, err |-> r.err])

CallAdd ==
    LET r == ValueAdd(args.v, args.v2)
    IN  Returns([op |-> "Value.Add", val |-> r.val, err |-> r.err])

CallSub ==
    LET r == ValueSub(args.v, args.v2)
    IN  Returns([op |-> "Value.Sub", val |-> r.val, err |-> r.err])

CallMul ==
    LET r == ValueMul(args.v, args.v2)
    IN  Returns([op |-> "Value.Mul", val |-> r.val, err |-> r.err])

NextValue ==
    \/ CallEqual
    \/ CallEqualDetailed
    \/ CallGreaterThan
    \/ CallGreaterThanDetailed
    \/ CallGreaterThanOrEqual
    \/ CallGreaterThanOrEqualDetailed
    \/ CallLessThan
    \/ CallLessThanDetailed
    \/ CallLessThanOrEqual
    \/ CallLessThanOrEqualDetailed
    \/ CallAdd
    \/ CallSub
    \/ CallMul

SpecValue == InitValue /\ [][NextValue]_vars

(***************************************************************************)
(* The specification of Sum: a Value and a list of Values are drawn.       *)
(***************************************************************************)
InitSum ==
    LET Summands == {Val(Dec(value, exp), currency) :
                        value \in {-MaxCoef, MaxCoef}, exp \in {-MaxExp, 0},
                        currency \in {Nil, "testCurrency1", "testCurrencyCollision1"}}
    IN  /\ cc = EmptyCollection("")
        /\ args \in [first : Summands, values : UNION {[1..k -> Summands] : k \in 0..MaxValues}]
        /\ ret = NoCall
        /\ dst = ZeroValue
        /\ mutex = Unlocked

CallSum ==
    LET r == Sum(args.first, args.values)
    IN  Returns([op |-> "Sum", val |-> r.val, err |-> r.err])

SpecSum == InitSum /\ [][CallSum]_vars

(***************************************************************************)
(* The specification of the split: a Value, a number of parts and a        *)
(* smallest unit are drawn and the Value is split.                         *)
(***************************************************************************)
SplitCurrencies == {Nil, "testCurrency1"}

InitSplit ==
    /\ cc = EmptyCollection("")
    /\ args \in [v : ValuesIn(SplitCurrencies), n : -1..MaxParts, smallestUnit : ValuesIn(SplitCurrencies)]
    /\ ret = NoCall
    /\ dst = ZeroValue
    /\ mutex = Unlocked

CallSplitWithSmallestUnit ==
    LET r == SplitWithSmallestUnit(args.v, args.n, args.smallestUnit)
    IN  Returns([op |-> "SplitWithSmallestUnit", values |-> r.values, err |-> r.err])

NextSplit ==
    CallSplitWithSmallestUnit

SpecSplit == InitSplit /\ [][NextSplit]_vars

(***************************************************************************)
(* The specification of Split: a Value and a number of parts are drawn and *)
(* the Value is split by the smallest unit of its currency.                *)
(***************************************************************************)
UnitCurrencies ==
    {Nil, "testCurrency1", "testCurrencyIllegal4", "testCurrencyIllegal5", "currencyWholeUnit", "currencyNoUnit"}

InitSplitUnit ==
    /\ cc = EmptyCollection("")
    /\ args \in [v : ValuesIn(UnitCurrencies), n : -1..MaxParts]
    /\ ret = NoCall
    /\ dst = ZeroValue
    /\ mutex = Unlocked

CallSplit ==
    LET r == Split(args.v, args.n)
    IN  Returns([op |-> "Split", values |-> r.values, err |-> r.err])

NextSplitUnit ==
    CallSplit

SpecSplitUnit == InitSplitUnit /\ [][NextSplitUnit]_vars

(***************************************************************************)
(* The specification of the round trips.  cc is the collection Currencies, *)
(* which is not locked to a standard (currency-all.go); a Value is drawn,  *)
(* encoded, and the encoding is decoded into a new Value.                  *)
(***************************************************************************)
CodecCurrencies ==
    {Nil, "testCurrency1", "testCurrencyCollision2", "testCurrencyIllegal1", "currencyNegativeID"}

CodecAmounts ==
    {Dec(value * factor, exp) : value \in -MaxCoef..MaxCoef, factor \in {1, 100}, exp \in -MaxExp..MaxExp}

CodecValues == {Val(amount, currency) : amount \in CodecAmounts, currency \in CodecCurrencies}

\* The lists of at most n of the currencies that make a collection.
ListsOf(currencies, n) ==
    {list \in UNION {[1..k -> currencies] : k \in 0..n} : NewCurrencyCollection("", list).err = NoError}

InitRoundTrip ==
    /\ \E list \in ListsOf(CodecCurrencies \ {Nil}, MaxBatch) : cc = NewCurrencyCollection("", list).cc
    /\ args \in [v : CodecValues]
    /\ ret = NoCall
    /\ dst = ZeroValue
    /\ mutex = Unlocked

Decoded(op, r) == Returns([op |-> op, out |-> r.v, err |-> r.err])

RoundTripJSON == Decoded("RoundTripJSON", UnmarshalJSON(cc, ZeroValue, MarshalJSON(args.v)))

RoundTripBinary == Decoded("RoundTripBinary", UnmarshalBinary(cc, ZeroValue, MarshalBinary(args.v)))

RoundTripText == Decoded("RoundTripText", UnmarshalText(cc, ZeroValue, MarshalText(args.v)))

NextRoundTrip ==
    \/ RoundTripJSON
    \/ RoundTripBinary
    \/ RoundTripText

SpecRoundTrip == InitRoundTrip /\ [][NextRoundTrip]_vars

(***************************************************************************)
(* The specification of the decoders: a destination dst and the argument   *)
(* of a decoder, well-formed or malformed, are drawn and the decoder is    *)
(* called on the destination.  ret keeps the destination as it was before  *)
(* the call.                                                               *)
(***************************************************************************)
DecodeCurrencies == {Nil, "testCurrency1", "testCurrencyCollision4", "currencyNegativeID"}

DecodeAmounts ==
    {Dec(value * factor, exp) : value \in {-MaxCoef, 0, MaxCoef}, factor \in {1, 100}, exp \in {-MaxExp, 0}}

DecodeValues == {Val(amount, currency) : amount \in DecodeAmounts, currency \in DecodeCurrencies}

AmountTexts == {DecString(amount) : amount \in DecodeAmounts} \cup {<<>>, <<"x">>, <<"1", ".", ".", "5">>}

CurrencyTexts == {UniqueCode(c) : c \in DecodeCurrencies \ {Nil}}

IDTexts == {IntString(UniqueID(c)) : c \in DecodeCurrencies \ {Nil}} \cup {<<>>, <<"x">>, <<" ", "1", " ">>}

JSONInputs ==
    {JSONMalformed}
        \cup {JSONObject([Amount |-> a, Currency |-> c]) : a \in AmountTexts, c \in CurrencyTexts \cup {""}}
        \cup {JSONObject([Amount |-> a]) : a \in AmountTexts}
        \cup {JSONObject([Currency |-> c]) : c \in CurrencyTexts}

Truncations(data) == {SubSeq(data, 1, k) : k \in 0..Len(data)}

\* data with the version byte of the amount's big integer replaced.
BadVersion(data) == [data EXCEPT ![9] = 0]

BinaryInputs ==
    UNION {Truncations(MarshalBinary(v)) \cup {BadVersion(MarshalBinary(v))} : v \in DecodeValues}

TextInputs ==
    AmountTexts
        \cup {a \o <<sep, c>> : a \in AmountTexts, sep \in {" ", NBSP}, c \in CurrencyTexts}
        \cup {a \o <<" ", c, " ">> : a \in AmountTexts, c \in CurrencyTexts}

ScanInputs ==
    {DriverOther}
        \cup {DriverString(DriverValue(v)) : v \in DecodeValues}
        \cup {DriverString(<<"(">> \o a \o <<",">> \o id \o <<")">>) : a \in AmountTexts, id \in IDTexts}
        \cup {DriverString(a) : a \in AmountTexts}
        \cup {DriverString(a \o <<",", "1", ",">>) : a \in AmountTexts}

Calls(op, inputs) == {[op |-> op, data |-> data] : data \in inputs}

InitDecode ==
    /\ \E list \in ListsOf({"testCurrency1", "currencyNegativeID"}, MaxBatch) :
          cc = NewCurrencyCollection("", list).cc
    /\ \/ args \in Calls("UnmarshalJSON", JSONInputs)
       \/ args \in Calls("UnmarshalBinary", BinaryInputs)
       \/ args \in Calls("UnmarshalText", TextInputs)
       \/ args \in Calls("GobDecode", BinaryInputs)
       \/ args \in Calls("Scan", ScanInputs)
    /\ ret = NoCall
    /\ dst \in {Val(amount, currency) : amount \in {DecZero, Dec(MaxCoef, -MaxExp)},
                                        currency \in {Nil, "testCurrency1"}}
    /\ mutex = Unlocked

DecodedInto(op, r) ==
    /\ dst' = r.v
    /\ ret' = [op |-> op, v |-> dst, err |-> r.err]
    /\ UNCHANGED <<cc, args, mutex>>

CallUnmarshalJSON ==
    /\ args.op = "UnmarshalJSON"
    /\ DecodedInto("UnmarshalJSON", UnmarshalJSON(cc, dst, args.data))

CallUnmarshalBinary ==
    /\ args.op = "UnmarshalBinary"
    /\ DecodedInto("UnmarshalBinary", UnmarshalBinary(cc, dst, args.data))

CallUnmarshalText ==
    /\ args.op = "UnmarshalText"
    /\ DecodedInto("UnmarshalText", UnmarshalText(cc, dst, args.data))

CallGobDecode ==
    /\ args.op = "GobDecode"
    /\ DecodedInto("GobDecode", GobDecode(cc, dst, args.data))

CallScan ==
    /\ args.op = "Scan"
    /\ DecodedInto("Scan", Scan(cc, dst, args.data))

NextDecode ==
    \/ CallUnmarshalJSON
    \/ CallUnmarshalBinary
    \/ CallUnmarshalText
    \/ CallGobDecode
    \/ CallScan

SpecDecode == InitDecode /\ [][NextDecode]_vars

(***************************************************************************)
(* The specification of the locking: goroutines call Add and the lookups   *)
(* of one collection.  args holds, for every goroutine, the call it is in  *)
(* and its position in it; a step is what a goroutine does between two     *)
(* operations of the mutex, and one turn of Add's loop.                    *)
(***************************************************************************)
Goroutines == {"g1", "g2", "g3"}

LockCurrencies == {"testCurrency1", "currencySameNumericCode"}

LockBatches ==
    { <<>>,
      <<"testCurrency1">>,
      <<"testCurrency1", "currencySameNumericCode">>,
      <<"currencySameNumericCode", "testCurrency1">> }

Idle == [pc |-> "idle"]

InitLocking ==
    /\ \E currencyStandard \in Standards : cc = EmptyCollection(currencyStandard)
    /\ args = [p \in Goroutines |-> Idle]
    /\ ret = NoCall
    /\ dst = ZeroValue
    /\ mutex = Unlocked

\* Goroutine p moves to the call state call and nothing else changes.
Goes(p, call) ==
    /\ args' = [args EXCEPT ![p] = call]
    /\ UNCHANGED <<cc, ret, dst, mutex>>

\* Goroutine p returns result from its call, releasing the mutex to m.
ReturnsFrom(p, result, m) ==
    /\ args' = [args EXCEPT ![p] = Idle]
    /\ ret' = result
    /\ mutex' = m
    /\ UNCHANGED <<cc, dst>>

\* Add(currencies...) is called.
AddCall(p, currencies) ==
    /\ args[p] = Idle
    /\ Goes(p, [pc |-> "Lock", op |-> "Add", currencies |-> currencies, i |-> 1, err |-> NoError])

\* cc.mutex.Lock() returns.
AddLock(p) ==
    /\ args[p].pc = "Lock"
    /\ CanLock(mutex)
    /\ mutex' = Lock(mutex, p)
    /\ args' = [args EXCEPT ![p].pc = "loop"]
    /\ UNCHANGED <<cc, ret, dst>>

\* One turn of the loop over the currencies, or its end.
AddLoop(p) ==
    /\ args[p].pc = "loop"
    /\ IF args[p].i > Len(args[p].currencies)
       THEN /\ args' = [args EXCEPT ![p].pc = "Unlock"]
            /\ cc' = cc
       ELSE LET r == add(cc, args[p].currencies[args[p].i])
            IN  /\ cc' = r.cc
                /\ args' = IF r.err # NoError
                           THEN [args EXCEPT ![p].pc = "Unlock", ![p].err = r.err]
                           ELSE [args EXCEPT ![p].i = @ + 1]
    /\ UNCHANGED <<ret, dst, mutex>>

\* The deferred cc.mutex.Unlock() and the return.
AddUnlock(p) ==
    /\ args[p].pc = "Unlock"
    /\ ReturnsFrom(p, [op |-> "Add", err |-> args[p].err], Unlock(mutex, p))

\* A lookup is called: ByNumericCode and ByCode return nil without the mutex
\* when the collection does not keep their map.
LookupCall(p, op, key, noMap) ==
    /\ args[p] = Idle
    /\ IF noMap
       THEN ReturnsFrom(p, [op |-> op, result |-> Nil], mutex)
       ELSE Goes(p, [pc |-> "RLock", op |-> op, key |-> key])

AllCall(p) == LookupCall(p, "All", Nil, FALSE)

ByUniqueIDCall(p, uniqueID) == LookupCall(p, "ByUniqueID", uniqueID, FALSE)

ByUniqueCodeCall(p, uniqueCode) == LookupCall(p, "ByUniqueCode", uniqueCode, FALSE)

ByNumericCodeCall(p, numericCode) ==
    LookupCall(p, "ByNumericCode", numericCode, cc.byNumericCode.isNil)

ByCodeCall(p, code) == LookupCall(p, "ByCode", code, cc.byCode.isNil)

\* cc.mutex.RLock() returns.
LookupRLock(p) ==
    /\ args[p].pc = "RLock"
    /\ CanRLock(mutex)
    /\ mutex' = RLock(mutex, p)
    /\ args' = [args EXCEPT ![p].pc = "read"]
    /\ UNCHANGED <<cc, ret, dst>>

\* What the lookup of goroutine p reads from the collection.
LookupResult(p) ==
    CASE args[p].op = "All" -> All(cc)
      [] args[p].op = "ByUniqueID" -> ByUniqueID(cc, args[p].key)
      [] args[p].op = "ByUniqueCode" -> ByUniqueCode(cc, args[p].key)
      [] args[p].op = "ByNumericCode" -> ByNumericCode(cc, args[p].key)
      [] args[p].op = "ByCode" -> ByCode(cc, args[p].key)

\* The read, the deferred cc.mutex.RUnlock() and the return.
LookupReturn(p) ==
    /\ args[p].pc = "read"
    /\ ReturnsFrom(p, [op |-> args[p].op, result |-> LookupResult(p)], RUnlock(mutex, p))

NextLocking ==
    \E p \in Goroutines :
        \/ \E currencies \in LockBatches : AddCall(p, currencies)
        \/ AddLock(p)
        \/ AddLoop(p)
        \/ AddUnlock(p)
        \/ AllCall(p)
        \/ \E c \in LockCurrencies : ByUniqueIDCall(p, UniqueID(c))
        \/ \E c \in LockCurrencies : ByUniqueCodeCall(p, UniqueCode(c))
        \/ \E c \in LockCurrencies : ByNumericCodeCall(p, NumericCode(c))
        \/ \E c \in LockCurrencies : ByCodeCall(p, Code(c))
        \/ LookupRLock(p)
        \/ LookupReturn(p)

SpecLocking == InitLocking /\ [][NextLocking]_vars

(***************************************************************************)
(* The specification of two concurrent Adds: two goroutines call Add once  *)
(* each, with one currency; a step is the checks of add, or its insertion, *)
(* and args keeps the error of a call that has returned.                   *)
(***************************************************************************)
Adders == {"g1", "g2"}

RaceCurrencies ==
    {"testCurrency1", "testCurrencyCollision2", "testCurrencyCollision3", "testCurrencyIllegal4",
     "currencySameNumericCode", "currencySameCode"}

\* The checks of add for the currency of this turn of the loop, or the end of
\* the loop.
AddLoopCheck(p) ==
    /\ args[p].pc = "loop"
    /\ IF args[p].i > Len(args[p].currencies)
       THEN args' = [args EXCEPT ![p].pc = "Unlock"]
       ELSE LET err == addCheck(cc, args[p].currencies[args[p].i])
            IN  args' = IF err # NoError
                        THEN [args EXCEPT ![p].pc = "Unlock", ![p].err = err]
                        ELSE [args EXCEPT ![p].pc = "insert"]
    /\ UNCHANGED <<cc, ret, dst, mutex>>

\* The insertion of add for the currency of this turn of the loop.
AddLoopInsert(p) ==
    /\ args[p].pc = "insert"
    /\ cc' = addInsert(cc, args[p].currencies[args[p].i])
    /\ args' = [args EXCEPT ![p].pc = "loop", ![p].i = @ + 1]
    /\ UNCHANGED <<ret, dst, mutex>>

\* The deferred cc.mutex.Unlock() and the return.
AddDone(p) ==
    /\ args[p].pc = "Unlock"
    /\ mutex' = Unlock(mutex, p)
    /\ args' = [args EXCEPT ![p].pc = "done"]
    /\ ret' = [op |-> "Add", err |-> args[p].err]
    /\ UNCHANGED <<cc, dst>>

NextRace ==
    \E p \in Adders :
        \/ \E c \in RaceCurrencies : AddCall(p, <<c>>)
        \/ AddLock(p)
        \/ AddLoopCheck(p)
        \/ AddLoopInsert(p)
        \/ AddDone(p)

SpecRace == InitLocking /\ [][NextRace]_vars

(***************************************************************************)
(* The specification of the binary codec: a Value is drawn and encoded,    *)
(* and the destination dst is decoded into from the encoding and from a    *)
(* prefix of the data that was last returned or decoded.                   *)
(***************************************************************************)
BinaryCurrencies ==
    {Nil, "testCurrency1", "testCurrencyCollision4", "testCurrencyIllegal1", "currencyNegativeID"}

BinaryValues == {Val(amount, currency) : amount \in DecodeAmounts, currency \in BinaryCurrencies}

InitBinary ==
    /\ \E list \in ListsOf({"testCurrency1", "testCurrencyIllegal1", "currencyNegativeID"}, MaxBatch) :
          cc = NewCurrencyCollection("", list).cc
    /\ args \in [v : BinaryValues]
    /\ ret = NoCall
    /\ dst \in {ZeroValue, Val(Dec(MaxCoef, -MaxExp), "testCurrency1")}
    /\ mutex = Unlocked

EncodeBinary ==
    /\ ret = NoCall
    /\ Returns([op |-> "MarshalBinary", data |-> MarshalBinary(args.v)])

DecodeBinary(n) ==
    /\ ret # NoCall
    /\ n <= Len(ret.data)
    /\ LET data == SubSeq(ret.data, 1, n)
           r == UnmarshalBinary(cc, dst, data)
       IN  /\ dst' = r.v
           /\ ret' = [op |-> "UnmarshalBinary", data |-> data, v |-> dst, err |-> r.err]
    /\ UNCHANGED <<cc, args, mutex>>

\* The longest data MarshalBinary returns: 4 bytes of the unique ID, 4 of the
\* exponent, the sign byte and the bytes of the value.
MaxData == Len(MarshalBinary(Val(Dec(MaxCoef * 100, 0), Nil)))

NextBinary ==
    \/ EncodeBinary
    \/ \E n \in 0..MaxData : DecodeBinary(n)

SpecBinary == InitBinary /\ [][NextBinary]_vars

(***************************************************************************)
(* The specification of the text decoding: a string of an amount text,     *)
(* well-formed or not, and of up to two separators and unique codes is     *)
(* drawn, and FromString and UnmarshalText are called with it.  ret keeps  *)
(* the destination of UnmarshalText as it was before the call.             *)
(***************************************************************************)
Separators == {" ", NBSP}

TextCurrencies == {"testCurrency1", "testCurrencyCollision4", "currencyNegativeID"}

TextAmounts == {DecString(amount) : amount \in DecodeAmounts} \cup {<<>>, <<"x">>}

TextCodes == {<<UniqueCode(c)>> : c \in TextCurrencies} \cup {<<>>}

TextStrings ==
    TextAmounts
        \cup {a \o <<sep>> \o c : a \in TextAmounts, sep \in Separators, c \in TextCodes}
        \cup {a \o <<sep1>> \o c \o <<sep2>> \o c2 :
                  a \in {<<>>, <<"5">>}, sep1 \in Separators, sep2 \in Separators,
                  c \in TextCodes, c2 \in {<<>>, <<UniqueCode("testCurrency1")>>}}

InitText ==
    /\ \E list \in ListsOf({"testCurrency1", "currencyNegativeID"}, MaxBatch) :
          cc = NewCurrencyCollection("", list).cc
    /\ args \in [str : TextStrings]
    /\ ret = NoCall
    /\ dst \in {ZeroValue, Val(Dec(MaxCoef, -MaxExp), "testCurrency1")}
    /\ mutex = Unlocked

FromStringCall ==
    LET r == FromString(cc, args.str)
    IN  Returns([op |-> "FromString", v |-> r.v, err |-> r.err])

UnmarshalTextCall ==
    LET r == UnmarshalText(cc, dst, args.str)
    IN  /\ dst' = r.v
        /\ ret' = [op |-> "UnmarshalText", v |-> dst, err |-> r.err]
        /\ UNCHANGED <<cc, args, mutex>>

NextText ==
    \/ FromStringCall
    \/ UnmarshalTextCall

SpecText == InitText /\ [][NextText]_vars

(***************************************************************************)
(* The specification of FromStringAndCurrency: a string as above and a     *)
(* currency, registered or not, or no currency, are drawn.                 *)
(***************************************************************************)
InitTextCurrency ==
    /\ \E list \in ListsOf({"testCurrency1", "currencyNegativeID"}, MaxBatch) :
          cc = NewCurrencyCollection("", list).cc
    /\ args \in [str : TextStrings,
                 cur : {Nil, "testCurrency1", "testCurrencyCollision2", "testCurrencyCollision4"}]
    /\ ret = NoCall
    /\ dst = ZeroValue
    /\ mutex = Unlocked

FromStringAndCurrencyCall ==
    LET r == FromStringAndCurrency(cc, args.str, args.cur)
    IN  Returns([op |-> "FromStringAndCurrency", v |-> r.v, err |-> r.err])

SpecTextCurrency == InitTextCurrency /\ [][FromStringAndCurrencyCall]_vars

(***************************************************************************)
(* The specification of the database bindings: a Value is drawn, Value()   *)
(* makes its database value, and Scan reads the database value into a      *)
(* destination.  ret keeps the destination as it was before the call.      *)
(***************************************************************************)
InitDriver ==
    /\ \E list \in ListsOf({"testCurrency1", "testCurrencyIllegal1", "currencyNegativeID"}, MaxBatch) :
          cc = NewCurrencyCollection("", list).cc
    /\ args \in [v : BinaryValues]
    /\ ret = NoCall
    /\ dst \in {ZeroValue, Val(Dec(MaxCoef, -MaxExp), "testCurrency1")}
    /\ mutex = Unlocked

ValueCall ==
    /\ ret = NoCall
    /\ Returns([op |-> "Value", data |-> DriverValue(args.v)])

ScanCall ==
    /\ ret # NoCall
    /\ LET r == Scan(cc, dst, DriverString(ret.data))
       IN  /\ dst' = r.v
           /\ ret' = [op |-> "Scan", data |-> ret.data, v |-> dst, err |-> r.err]
    /\ UNCHANGED <<cc, args, mutex>>

NextDriver ==
    \/ ValueCall
    \/ ScanCall

SpecDriver == InitDriver /\ [][NextDriver]_vars

(***************************************************************************)
(* The specification of the JSON bindings: a Value is drawn and encoded,   *)
(* and the encoding, or a drawn document, is decoded into a destination.   *)
(* ret keeps the destination as it was before the call.                    *)
(***************************************************************************)
InitJSON ==
    /\ \E list \in ListsOf({"testCurrency1", "currencyNegativeID"}, MaxBatch) :
          cc = NewCurrencyCollection("", list).cc
    /\ args \in [v : BinaryValues] \cup [data : JSONInputs]
    /\ ret = NoCall
    /\ dst \in {ZeroValue, Val(Dec(MaxCoef, -MaxExp), "testCurrency1")}
    /\ mutex = Unlocked

JSONEncode ==
    /\ "v" \in DOMAIN args
    /\ ret = NoCall
    /\ Returns([op |-> "MarshalJSON", data |-> MarshalJSON(args.v)])

JSONDecode ==
    /\ "data" \in DOMAIN args \/ ret # NoCall
    /\ LET data == IF "data" \in DOMAIN args THEN args.data ELSE ret.data
           r == UnmarshalJSON(cc, dst, data)
       IN  /\ dst' = r.v
           /\ ret' = [op |-> "UnmarshalJSON", data |-> data, v |-> dst, err |-> r.err]
    /\ UNCHANGED <<cc, args, mutex>>

NextJSON ==
    \/ JSONEncode
    \/ JSONDecode

SpecJSON == InitJSON /\ [][NextJSON]_vars

(***************************************************************************)
(* The specification of ValidateCurrency: a currency is drawn from legal   *)
(* and illegal results of its methods.                                     *)
(***************************************************************************)
InitValidate ==
    /\ cc = EmptyCollection("")
    /\ args \in [c : [standard : {<<"F", "O", "O">>, <<"F", "o", "o">>},
                      code : {<<"B", "A", "R">>, <<"B", "a", "r">>},
                      uniqueCode : {<<"F", "O", "O", "-", "B", "A", "R">>, <<"B", "A", "R">>},
                      uniqueID : {-2, 0, 1},
                      decimalPlaces : {-1, 0, 2},
                      hasSmallestUnit : BOOLEAN,
                      symbol : {"", "|", "US$"},
                      narrowSymbol : {"", "|", "$"}]]
    /\ ret = NoCall
    /\ dst = ZeroValue
    /\ mutex = Unlocked

CallValidateCurrency ==
    Returns([op |-> "ValidateCurrency", err |-> ValidateCurrency(args.c)])

SpecValidate == InitValidate /\ [][CallValidateCurrency]_vars

(***************************************************************************)
(* Properties of the registry.                                             *)
(***************************************************************************)
Range(seq) == {seq[i] : i \in 1..Len(seq)}

Locked == cc.currencyStandard # ""

SharesUniqueKey(c, d) == UniqueID(c) = UniqueID(d) \/ UniqueCode(c) = UniqueCode(d)

SharesCode(c, d) == Code(c) = Code(d)

AddReturned == ret.op = "Add"

AddFailed == ret.op = "Add" /\ ret.err # NoError

AddSucceeded == ret.op = "Add" /\ ret.err = NoError

\* C1, as claimed: in every registry, locked or not, an Add never succeeds
\* when one of its currencies d shares the unique ID, the unique code or the
\* plain code of a different registered currency c.
C1_ExclusivityAnyRegistry ==
    AddSucceeded =>
        \A d \in Range(ret.currencies), c \in cc.hasCurrency :
            c # d => ~(SharesUniqueKey(c, d) \/ SharesCode(c, d))

\* C1, amended: an Add never succeeds when one of its currencies d shares the
\* unique ID or the unique code of a different registered currency c, or,
\* in a standard-locked registry, c's plain code.
C1_Exclusivity ==
    AddSucceeded =>
        \A d \in Range(ret.currencies), c \in cc.hasCurrency :
            c # d => ~(SharesUniqueKey(c, d) \/ (Locked /\ SharesCode(c, d)))

\* C1's case: in a locked registry an Add failed at a currency that shares
\* only the plain code of a different registered currency.
C1_Witness ==
    /\ AddFailed
    /\ Locked
    /\ \E c \in cc.hasCurrency :
          LET d == ret.currencies[ret.failedAt]
          IN  /\ c # d
              /\ SharesCode(c, d)
              /\ ~SharesUniqueKey(c, d)
              /\ NumericCode(c) # NumericCode(d)

\* C2, as claimed: an Add call that returns an error, whatever the number of
\* its currencies, leaves the list and every index as they were before it.
C2_FailedAddChangesNothing ==
    [][(ret'.op = "Add" /\ ret'.err # NoError) => cc' = cc]_vars

\* C2, amended: an Add call that returns an error leaves the list and every
\* index as they were before the failing currency was processed: a call
\* whose first currency fails changes nothing, and a longer call has
\* committed exactly the currencies that precede the failing one.
C2_FailedAddKeepsPrefix ==
    [][(ret'.op = "Add" /\ ret'.err # NoError) =>
        LET prefix == SubSeq(ret'.currencies, 1, ret'.failedAt - 1)
            committed == {d \in CurrencyPool : d \in cc.hasCurrency \/ d \in Range(prefix)}
        IN  /\ ret'.failedAt \in 1..Len(ret'.currencies)
            /\ ret'.failedAt = 1 => cc' = cc
            /\ cc'.hasCurrency = committed
            /\ Range(cc'.all) = committed
            /\ SubSeq(cc'.all, 1, Len(cc.all)) = cc.all
            /\ {cc'.byUniqueID.kv[k] : k \in DOMAIN cc'.byUniqueID.kv} = committed
            /\ {cc'.byUniqueCode.kv[k] : k \in DOMAIN cc'.byUniqueCode.kv} = committed
            /\ Locked => {cc'.byCode.kv[k] : k \in DOMAIN cc'.byCode.kv} = committed
            /\ Locked => {cc'.byNumericCode.kv[k] : k \in DOMAIN cc'.byNumericCode.kv} = committed
            /\ cc'.byCode.isNil = cc.byCode.isNil
            /\ cc'.byNumericCode.isNil = cc.byNumericCode.isNil]_vars

\* C2's case: an Add with two currencies failed at its second one, after it
\* had registered the first.
C2_Witness ==
    /\ AddFailed
    /\ ret.failedAt = 2
    /\ ret.currencies[1] # ret.currencies[2]
    /\ cc.all # <<>>
    /\ cc.all[Len(cc.all)] = ret.currencies[1]

\* C3: every currency of the list is what each index it takes part in
\* returns for its key, and every index entry is a currency of the list.
C3_IndexConsistency ==
    /\ \A c \in Range(cc.all) :
          /\ ByUniqueID(cc, UniqueID(c)) = c
          /\ ByUniqueCode(cc, UniqueCode(c)) = c
          /\ Locked => ByCode(cc, Code(c)) = c
          /\ Locked => ByNumericCode(cc, NumericCode(c)) = c
    /\ \A k \in DOMAIN cc.byUniqueID.kv : cc.byUniqueID.kv[k] \in Range(cc.all)
    /\ \A k \in DOMAIN cc.byUniqueCode.kv : cc.byUniqueCode.kv[k] \in Range(cc.all)
    /\ \A k \in DOMAIN cc.byCode.kv : cc.byCode.kv[k] \in Range(cc.all)
    /\ \A k \in DOMAIN cc.byNumericCode.kv : cc.byNumericCode.kv[k] \in Range(cc.all)

\* C3's case: a locked registry of several currencies, reached through
\* successful Adds, after an Add that failed.
C3_Witness ==
    /\ Locked
    /\ Len(cc.all) >= 2
    /\ AddFailed

Occurrences(seq, x) == Cardinality({i \in 1..Len(seq) : seq[i] = x})

\* C11: adding currency instances that are already registered returns no
\* error and changes nothing, and no currency instance occurs more than once
\* in the list returned by All().
C11_Idempotence ==
    /\ \A currencies \in BatchesOf(MaxBatch) :
          Range(currencies) \subseteq cc.hasCurrency =>
              /\ AddResult(cc, currencies).err = NoError
              /\ AddResult(cc, currencies).cc = cc
    /\ \A c \in CurrencyPool : Occurrences(All(cc), c) <= 1

\* An Add of one instance twice in its batch has succeeded, and the instance
\* is once in the list.
C11_Witness ==
    /\ AddSucceeded
    /\ Len(ret.currencies) = 2
    /\ ret.currencies[1] = ret.currencies[2]
    /\ Occurrences(All(cc), ret.currencies[1]) = 1

\* C12: in a registry locked to a standard, Add of a currency of another
\* standard returns an error and changes neither the list nor any index,
\* whatever identifiers the currency has; so every registered currency is of
\* the registry's standard.
C12_LockedStandard ==
    Locked =>
        /\ \A c \in CurrencyPool :
              Standard(c) # cc.currencyStandard =>
                  /\ AddResult(cc, <<c>>).err # NoError
                  /\ AddResult(cc, <<c>>).cc = cc
        /\ \A d \in Range(All(cc)) : Standard(d) = cc.currencyStandard

\* An Add to a locked registry that holds a currency has failed at a currency
\* of another standard.
C12_Witness ==
    /\ Locked
    /\ AddFailed
    /\ Standard(ret.currencies[ret.failedAt]) # cc.currencyStandard
    /\ All(cc) # <<>>

\* Currency c is on the list and is what every index of col returns for its key.
HeldUnderAllKeys(col, c) ==
    /\ c \in Range(All(col))
    /\ c \in col.hasCurrency
    /\ ByUniqueID(col, UniqueID(c)) = c
    /\ ByUniqueCode(col, UniqueCode(c)) = c
    /\ ~col.byNumericCode.isNil => ByNumericCode(col, NumericCode(c)) = c
    /\ ~col.byCode.isNil => ByCode(col, Code(c)) = c

\* Currency c is not on the list and no index of col holds it.
HeldNowhere(col, c) ==
    /\ c \notin Range(All(col))
    /\ c \notin col.hasCurrency
    /\ \A k \in DOMAIN col.byUniqueID.kv : col.byUniqueID.kv[k] # c
    /\ \A k \in DOMAIN col.byUniqueCode.kv : col.byUniqueCode.kv[k] # c
    /\ \A k \in DOMAIN col.byNumericCode.kv : col.byNumericCode.kv[k] # c
    /\ \A k \in DOMAIN col.byCode.kv : col.byCode.kv[k] # c

\* C13: when an Add fails at the i-th currency of its batch, every currency
\* before the i-th is registered under all of its keys, and the i-th and
\* every later currency that was registered neither before the call nor as
\* one of the currencies before the i-th is on no index and not on the list.
C13_PerCurrencyAtomicity ==
    [][(ret'.op = "Add" /\ ret'.err # NoError) =>
        \A k \in 1..Len(ret'.currencies) :
            LET c == ret'.currencies[k]
                prefix == SubSeq(ret'.currencies, 1, ret'.failedAt - 1)
            IN  /\ k < ret'.failedAt => HeldUnderAllKeys(cc', c)
                /\ (k >= ret'.failedAt /\ c \notin cc.hasCurrency /\ c \notin Range(prefix))
                       => HeldNowhere(cc', c)]_vars

\* An Add to a locked registry has failed at its second currency: the first
\* is held under all four keys and the second is held nowhere.
C13_Witness ==
    /\ Locked
    /\ AddFailed
    /\ ret.failedAt = 2
    /\ HeldUnderAllKeys(cc, ret.currencies[1])
    /\ HeldNowhere(cc, ret.currencies[2])
    /\ Len(All(cc)) > 1

(***************************************************************************)
(* Properties of the locking.                                              *)
(***************************************************************************)
\* Goroutine p is in Add between its Lock and its Unlock.
Writing(p) == args[p].pc \in {"loop", "Unlock"}

\* Goroutine p is in a lookup between its RLock and its RUnlock.
Reading(p) == args[p].pc = "read"

Exclusion ==
    \A p \in Goroutines :
        /\ Writing(p) =>
              /\ mutex.writer = p
              /\ mutex.readers = {}
              /\ \A q \in Goroutines \ {p} : ~Writing(q) /\ ~Reading(q)
        /\ Reading(p) =>
              /\ p \in mutex.readers
              /\ mutex.writer = NoWriter

WritesUnderLock ==
    cc' # cc => \E p \in Goroutines : Writing(p) /\ mutex.writer = p /\ mutex'.writer = p

\* C14: an Add holds the mutex for writing from before its first currency
\* to after its last, and meanwhile no other goroutine is inside an Add or
\* inside a lookup; a lookup reads holding the mutex for reading, while no
\* Add holds it; the collection changes only in a step of the goroutine
\* that holds the mutex for writing.
C14_Locking == []Exclusion /\ [][WritesUnderLock]_vars

\* An Add is at the second currency of its batch, having registered the
\* first, while another Add and a lookup wait for the mutex.
C14_Witness ==
    \E p, q, r \in Goroutines :
        /\ args[p].pc = "loop"
        /\ args[p].i = 2
        /\ All(cc) # <<>>
        /\ args[q].pc = "Lock"
        /\ args[r].pc = "RLock"

\* Two lookups read at the same time.
C14_LookupsOverlap ==
    \E p, q \in Goroutines : p # q /\ Reading(p) /\ Reading(q)

\* Goroutine p is inside an Add call that has had a turn of its loop or is
\* about to have one: some of its insertions, and not yet all, may be made.
Inserting(p) == args[p] # Idle /\ args[p].pc \in {"loop", "Unlock"}

\* What a lookup returns from the collection col.
LookupOf(op, key, col) ==
    CASE op = "All" -> All(col)
      [] op = "ByUniqueID" -> ByUniqueID(col, key)
      [] op = "ByUniqueCode" -> ByUniqueCode(col, key)
      [] op = "ByNumericCode" -> ByNumericCode(col, key)
      [] op = "ByCode" -> ByCode(col, key)

\* A lookup that has read returns what the collection holds while no Add is
\* between its first turn and its return: the collection of before the
\* insertions of every Add call, or of after all that the call commits.
ReadsBetweenAdds ==
    \A p \in Goroutines :
        (args[p] # Idle /\ args[p].pc = "read" /\ args'[p] = Idle) =>
            /\ \A q \in Goroutines : ~Inserting(q)
            /\ ret'.result = LookupOf(args[p].op, args[p].key, cc)
            /\ cc' = cc

\* A lookup that returns without the mutex, while an Add may be making its
\* insertions, returns no currency, as it does before and after every
\* insertion.
ReadsWithoutMap ==
    (args' = args /\ ret' # ret) =>
        /\ ret'.op \in {"ByNumericCode", "ByCode"}
        /\ ret'.result = Nil
        /\ \A c \in LockCurrencies : ByNumericCode(cc, NumericCode(c)) = Nil /\ ByCode(cc, Code(c)) = Nil
        /\ cc.byNumericCode.isNil /\ cc.byCode.isNil

\* C28: concurrent lookups observe one Add call with several currencies
\* atomically: what a lookup returns is read from the collection with none
\* of the insertions of the call or with all that the call commits, never
\* from the collection with a strict part of them.
C28_AtomicAdd == [][ReadsBetweenAdds /\ ReadsWithoutMap]_vars

\* An Add of two currencies has committed both, another Add of two
\* currencies waits for the mutex, and All has returned the two currencies.
C28_Witness ==
    /\ ret.op = "All"
    /\ Len(ret.result) = 2
    /\ \E q \in Goroutines :
          /\ args[q] # Idle
          /\ args[q].pc = "Lock"
          /\ Len(args[q].currencies) = 2

\* A lookup waits for the mutex while an Add of two currencies has made the
\* first of its insertions.
C28_LookupWaits ==
    \E p, q \in Goroutines :
        /\ args[p] # Idle /\ args[p].pc = "RLock" /\ args[p].op = "ByUniqueID"
        /\ args[q] # Idle /\ args[q].pc = "loop" /\ args[q].i = 2
        /\ Len(args[q].currencies) = 2
        /\ Len(All(cc)) = 1

\* The two Adds have returned.
BothDone == \A p \in Adders : args[p].pc = "done"

Added(p) == args[p].currencies[1]

\* The currencies c and d are two instances that collide in the registry: on
\* the unique ID or the unique code or, when the registry is locked to their
\* standard, on the plain code or the numeric code.
Collide(c, d) ==
    /\ c # d
    /\ Locked => (Standard(c) = cc.currencyStandard /\ Standard(d) = cc.currencyStandard)
    /\ \/ SharesUniqueKey(c, d)
       \/ Locked /\ (SharesCode(c, d) \/ NumericCode(c) = NumericCode(d))

CollisionErrors ==
    {Errorf("same unique ID as the already existing currency"),
     Errorf("same unique code as the already existing currency"),
     Errorf("same numeric code as the already existing currency"),
     Errorf("same code as the already existing currency")}

C27_FirstWins ==
    /\ BothDone
    /\ Locked
    /\ Collide(Added("g1"), Added("g2"))
    /\ args["g1"].err = NoError
    /\ args["g2"].err \in CollisionErrors

\* Both Adds are called and wait for the mutex.
C27_BothWait == \A p \in Adders : args[p].pc = "Lock"

\* C22: a registry without standard lock accepts two distinct currencies of
\* different standards that share the plain code: NewCurrencyCollection of
\* the two, and Add of the one to a registry that holds the other, return no
\* error and register both, unless the currency collides on a unique ID or a
\* unique code, the only reasons for which such a registry refuses one.
C22_SharedCodeAccepted ==
    /\ \A c \in CurrencyPool, d \in CurrencyPool :
          (Standard(c) # Standard(d) /\ SharesCode(c, d) /\ ~SharesUniqueKey(c, d)) =>
              LET r == NewCurrencyCollection("", <<c, d>>)
              IN  /\ r.err = NoError
                  /\ All(r.cc) = <<c, d>>
    /\ ~Locked =>
          \A c \in cc.hasCurrency, d \in CurrencyPool :
              (/\ Standard(c) # Standard(d)
               /\ SharesCode(c, d)
               /\ \A e \in cc.hasCurrency : e # d => ~SharesUniqueKey(e, d)) =>
                  /\ AddResult(cc, <<d>>).err = NoError
                  /\ {c, d} \subseteq AddResult(cc, <<d>>).cc.hasCurrency
    /\ (AddFailed /\ ~Locked) =>
          \E e \in cc.hasCurrency :
              /\ e # ret.currencies[ret.failedAt]
              /\ SharesUniqueKey(e, ret.currencies[ret.failedAt])

\* An Add to a registry without standard lock has succeeded, and the registry
\* holds one of its currencies and a currency of another standard with the
\* same plain code.
C22_Witness ==
    /\ ~Locked
    /\ AddSucceeded
    /\ \E c \in cc.hasCurrency, d \in Range(ret.currencies) :
          /\ d \in cc.hasCurrency
          /\ Standard(c) # Standard(d)
          /\ SharesCode(c, d)

\* The plain codes of the currencies, and one that no currency has.
Codes == {Code(c) : c \in CurrencyPool} \cup {"NONE"}

\* C23: on a registry without standard lock ByCode returns no currency for
\* every code, whatever was added; on a standard-locked registry ByCode(code)
\* returns the registered currency of that plain code if there is one, and
\* no currency if there is none.
C23_ByCode ==
    \A code \in Codes :
        LET registered == {c \in cc.hasCurrency : Code(c) = code}
        IN  /\ ~Locked => ByCode(cc, code) = Nil
            /\ (Locked /\ registered # {}) => registered = {ByCode(cc, code)}
            /\ (Locked /\ registered = {}) => ByCode(cc, code) = Nil

\* Adds have filled a registry without standard lock with currencies.
C23_Witness ==
    /\ ~Locked
    /\ AddSucceeded
    /\ Len(All(cc)) >= 2
    /\ \A c \in cc.hasCurrency : ByCode(cc, Code(c)) = Nil

\* An Add has put a currency into a standard-locked registry, and ByCode
\* returns it.
C23_LockedFound ==
    /\ Locked
    /\ AddSucceeded
    /\ \E c \in Range(ret.currencies) : ByCode(cc, Code(c)) = c

(***************************************************************************)
(* The registry only grows. *)

\* The list a is the first part of the list b.
IsPrefix(a, b) == Len(a) <= Len(b) /\ SubSeq(b, 1, Len(a)) = a

\* What the four keyed lookups return from col for the keys of currency k.
KeyedLookups(col, k) ==
    << ByUniqueID(col, UniqueID(k)), ByUniqueCode(col, UniqueCode(k)),
       ByNumericCode(col, NumericCode(k)), ByCode(col, Code(k)) >>

\* One step keeps every currency a keyed lookup returns and extends the list.
Grows ==
    /\ \A k \in CurrencyPool : \A n \in 1..4 :
          KeyedLookups(cc, k)[n] # Nil => KeyedLookups(cc', k)[n] = KeyedLookups(cc, k)[n]
    /\ IsPrefix(All(cc), All(cc'))

\* C29: the registry only grows: once a lookup by unique ID, unique code,
\* numeric code or plain code returns a currency, every later lookup of that
\* key returns the same currency, and the list All returns is a prefix, in
\* insertion order, of the list it returns at any later time.
C29_OnlyGrows == [][Grows]_vars

\* An Add to a registry of two currencies has failed on a currency whose
\* numeric code an earlier currency holds; the lookup of that numeric code
\* still returns the earlier currency.
C29_Witness ==
    /\ AddFailed
    /\ Len(All(cc)) >= 2
    /\ \E c \in Range(ret.currencies) :
          /\ c \notin cc.hasCurrency
          /\ ByNumericCode(cc, NumericCode(c)) \notin {Nil, c}

\* An Add has failed on a currency whose unique ID an earlier currency
\* holds; the lookup of that unique ID still returns the earlier currency.
C29_UniqueIDKept ==
    /\ AddFailed
    /\ \E c \in Range(ret.currencies) :
          /\ c \notin cc.hasCurrency
          /\ ByUniqueID(cc, UniqueID(c)) \notin {Nil, c}

\* The list has grown to its third currency.
C29_ListGrown == AddSucceeded /\ Len(All(cc)) = 3

(* Properties of the Values.  Amounts are compared as exact numbers: the   *)
(* number of 10^(-scale) units of a decimal.                               *)
(***************************************************************************)
UnitsAt(d, scale) == d.value * 10^(d.exp + scale)

Units(d) == UnitsAt(d, 2 * MaxExp)

SameCurrency == args.v.currency = args.v2.currency

ComparisonOf(op) ==
    LET a == Units(args.v.amount)
        b == Units(args.v2.amount)
    IN  CASE op \in {"Equal", "EqualDetailed"} -> a = b
          [] op \in {"GreaterThan", "GreaterThanDetailed"} -> a > b
          [] op \in {"GreaterThanOrEqual", "GreaterThanOrEqualDetailed"} -> a >= b
          [] op \in {"LessThan", "LessThanDetailed"} -> a < b
          [] op \in {"LessThanOrEqual", "LessThanOrEqualDetailed"} -> a <= b

Comparisons == {"Equal", "GreaterThan", "GreaterThanOrEqual", "LessThan", "LessThanOrEqual"}

DetailedComparisons ==
    {"EqualDetailed", "GreaterThanDetailed", "GreaterThanOrEqualDetailed",
     "LessThanDetailed", "LessThanOrEqualDetailed"}

\* C8: Add and Sub succeed exactly when both operands have the identical
\* currency (none and none included), and then return the exact sum or
\* difference in that currency; otherwise they return the
\* different-currencies error that names both currencies, in the order of
\* the operands, and so does the call with the operands exchanged.
C8_AddSubCurrencies ==
    ret.op \in {"Value.Add", "Value.Sub"} =>
        /\ (ret.err = NoError) <=> SameCurrency
        /\ SameCurrency =>
              /\ ret.val.currency = args.v.currency
              /\ ret.op = "Value.Add" =>
                    Units(ret.val.amount) = Units(args.v.amount) + Units(args.v2.amount)
              /\ ret.op = "Value.Sub" =>
                    Units(ret.val.amount) = Units(args.v.amount) - Units(args.v2.amount)
        /\ ~SameCurrency =>
              /\ ret.err = ErrorDifferentCurrencies(args.v.currency, args.v2.currency)
              /\ ValueAdd(args.v2, args.v).err = ErrorDifferentCurrencies(args.v2.currency, args.v.currency)
              /\ ValueSub(args.v2, args.v).err = ErrorDifferentCurrencies(args.v2.currency, args.v.currency)

\* C8's case: a Sub of a Value with a currency from a Value without one
\* returned the error.
C8_Witness ==
    /\ ret.op = "Value.Sub"
    /\ args.v.currency = Nil
    /\ args.v2.currency # Nil
    /\ ret.err = ErrorDifferentCurrencies(Nil, args.v2.currency)

\* C9: Mul returns an error exactly when both operands have a currency, the
\* same one or two different ones; otherwise it returns the exact product,
\* in the currency of the operand that has one, or without currency.
C9_MulCurrencies ==
    ret.op = "Value.Mul" =>
        /\ (ret.err # NoError) <=> (args.v.currency # Nil /\ args.v2.currency # Nil)
        /\ ret.err = NoError =>
              /\ UnitsAt(ret.val.amount, 2 * MaxExp)
                    = UnitsAt(args.v.amount, MaxExp) * UnitsAt(args.v2.amount, MaxExp)
              /\ args.v.currency # Nil => ret.val.currency = args.v.currency
              /\ args.v2.currency # Nil => ret.val.currency = args.v2.currency
              /\ (args.v.currency = Nil /\ args.v2.currency = Nil) => ret.val.currency = Nil

\* C9's case: a Mul of two Values of the same currency returned an error.
C9_Witness ==
    /\ ret.op = "Value.Mul"
    /\ args.v.currency # Nil
    /\ args.v.currency = args.v2.currency
    /\ ret.err # NoError

\* C10: each comparison of two Values of the identical currency returns the
\* comparison of the amounts; when the currencies differ, the plain variant
\* returns false and the Detailed variant false and the different-currencies
\* error.
C10_Comparisons ==
    /\ ret.op \in Comparisons =>
          ret.b = (SameCurrency /\ ComparisonOf(ret.op))
    /\ ret.op \in DetailedComparisons =>
          /\ ret.b = (SameCurrency /\ ComparisonOf(ret.op))
          /\ SameCurrency => ret.err = NoError
          /\ ~SameCurrency => ret.err = ErrorDifferentCurrencies(args.v.currency, args.v2.currency)

\* C10's case: LessThanOrEqualDetailed of two equal amounts, one of them
\* without currency, returned false and the error.
C10_Witness ==
    /\ ret.op = "LessThanOrEqualDetailed"
    /\ Units(args.v.amount) = Units(args.v2.amount)
    /\ args.v.currency # Nil
    /\ args.v2.currency = Nil
    /\ ret.b = FALSE
    /\ ret.err # NoError

(***************************************************************************)
(* Properties of the split.                                                *)
(***************************************************************************)
RECURSIVE SumUnits(_, _)
SumUnits(values, i) ==
    IF i > Len(values) THEN 0 ELSE Units(values[i].amount) + SumUnits(values, i + 1)

\* The split is asked with valid arguments: a positive number of parts and
\* a positive smallest unit, in the currency of the value, of which the
\* value is an exact multiple.
ValidSplit ==
    /\ ret.op = "SplitWithSmallestUnit"
    /\ args.n >= 1
    /\ Units(args.smallestUnit.amount) > 0
    /\ args.smallestUnit.currency = args.v.currency
    /\ Units(args.v.amount) % Units(args.smallestUnit.amount) = 0

\* C4: the parts of a valid split sum to the value exactly, and any two of
\* them differ by one smallest unit at most.
C4_SplitExactness ==
    ValidSplit =>
        /\ ret.err = NoError
        /\ SumUnits(ret.values, 1) = Units(args.v.amount)
        /\ \A i, j \in 1..Len(ret.values) :
              AbsInt(Units(ret.values[i].amount) - Units(ret.values[j].amount))
                  <= Units(args.smallestUnit.amount)

\* C4's case: a positive value was split into parts that are not all equal,
\* by a smallest unit of another exponent than the value's.
C4_Witness ==
    /\ ValidSplit
    /\ ret.err = NoError
    /\ args.v.amount.value > 0
    /\ args.v.amount.exp # args.smallestUnit.amount.exp
    /\ args.smallestUnit.amount.value > 1
    /\ \E i, j \in 1..Len(ret.values) : ret.values[i] # ret.values[j]

\* C5: with q = |v| / smallestUnit, k = q div n and r = q mod n, the first r
\* parts of a valid split are sign(v) * (k + 1) * smallestUnit and the other
\* n - r parts are sign(v) * k * smallestUnit.
C5_SplitBalance ==
    ValidSplit =>
        LET su == Units(args.smallestUnit.amount)
            q == AbsInt(Units(args.v.amount)) \div su
            k == q \div args.n
            r == q % args.n
            sign == SignInt(Units(args.v.amount))
        IN  /\ ret.err = NoError
            /\ Len(ret.values) = args.n
            /\ \A i \in 1..Len(ret.values) :
                  Units(ret.values[i].amount)
                      = IF i <= r THEN sign * (k + 1) * su ELSE sign * k * su

\* C5's case: a negative value was split into larger and smaller parts.
C5_Witness ==
    /\ ValidSplit
    /\ ret.err = NoError
    /\ args.v.amount.value < 0
    /\ args.n >= 3
    /\ Units(ret.values[1].amount) < Units(ret.values[args.n].amount)
    /\ Units(ret.values[2].amount) = Units(ret.values[args.n].amount)

SplitReturned == ret.op = "SplitWithSmallestUnit"

\* C15: SplitWithSmallestUnit returns an error, and then no list, exactly
\* when the number of parts is not positive, or the smallest unit is zero or
\* negative, or the smallest unit has another currency than the value, or
\* the value is not an exact multiple of the smallest unit; in every other
\* case it returns a list and no error.
C15_SplitErrors ==
    SplitReturned =>
        /\ ret.err # NoError <=>
              \/ args.n <= 0
              \/ Units(args.smallestUnit.amount) <= 0
              \/ args.smallestUnit.currency # args.v.currency
              \/ Units(args.v.amount) % Units(args.smallestUnit.amount) # 0
        /\ ret.err # NoError => ret.values = <<>>
        /\ ret.err = NoError => ret.values # <<>>
        /\ ret.err.kind # "panic"

\* A split into a positive number of parts by a positive smallest unit of
\* the value's currency has failed, the value being no multiple of it.
C15_Witness ==
    /\ SplitReturned
    /\ args.n >= 1
    /\ Units(args.smallestUnit.amount) > 0
    /\ args.smallestUnit.currency = args.v.currency
    /\ args.v.currency # Nil
    /\ ret.err # NoError
    /\ ret.values = <<>>

\* C16: a successful SplitWithSmallestUnit returns exactly n parts, each an
\* integer multiple of the smallest unit and each in the currency of the
\* value that was split; a zero value is split into n zero parts.
C16_SplitParts ==
    (SplitReturned /\ ret.err = NoError) =>
        /\ Len(ret.values) = args.n
        /\ \A i \in 1..Len(ret.values) :
              /\ Units(ret.values[i].amount) % Units(args.smallestUnit.amount) = 0
              /\ ret.values[i].currency = args.v.currency
              /\ Units(args.v.amount) = 0 => Units(ret.values[i].amount) = 0

\* A value of a currency was split into several parts of several smallest
\* units each, by a smallest unit that is not a power of ten.
C16_Witness ==
    /\ SplitReturned
    /\ ret.err = NoError
    /\ args.n > 2
    /\ args.v.currency # Nil
    /\ args.smallestUnit.amount.value > 1
    /\ \E i \in 1..Len(ret.values) :
          AbsInt(Units(ret.values[i].amount)) > Units(args.smallestUnit.amount)

\* A zero value of a currency was split into several parts.
C16_ZeroSplit ==
    /\ SplitReturned
    /\ ret.err = NoError
    /\ args.n > 1
    /\ Units(args.v.amount) = 0
    /\ args.v.currency # Nil

\* C17: Split(n) returns what SplitWithSmallestUnit(n, u) returns for the
\* smallest unit u of the value's currency, or for the zero Value without
\* currency when the value has no currency; so Split fails, with no list,
\* for every Value without currency.
C17_SplitByCurrencyUnit ==
    ret.op = "Split" =>
        LET u == IF args.v.currency # Nil
                 THEN Val(CurrencyDef[args.v.currency].smallestUnit,
                          IF CurrencyDef[args.v.currency].noSmallestUnitCurrency
                          THEN Nil ELSE args.v.currency)
                 ELSE Val(Dec(0, 0), Nil)
            r == SplitWithSmallestUnit(args.v, args.n, u)
        IN  /\ ret.values = r.values
            /\ ret.err = r.err
            /\ args.v.currency = Nil => ret.err # NoError /\ ret.values = <<>>

\* A non-zero Value without currency was asked to be split into several
\* parts, and the Split failed.
C17_Witness ==
    /\ ret.op = "Split"
    /\ args.v.currency = Nil
    /\ args.v.amount.value # 0
    /\ args.n > 1
    /\ ret.err # NoError

\* A Value of a currency was split into unequal parts by the currency's unit.
C17_SplitSucceeds ==
    /\ ret.op = "Split"
    /\ ret.err = NoError
    /\ \E i, j \in 1..Len(ret.values) : ret.values[i] # ret.values[j]

\* The number of units of the amounts of the values from position i on.
RECURSIVE UnitsFrom(_, _)
UnitsFrom(values, i) ==
    IF i > Len(values) THEN 0 ELSE Units(values[i].amount) + UnitsFrom(values, i + 1)

\* C25: Sum(first, values...) returns the amount of first plus the amounts of
\* all values, with the currency of first, exactly when every value has the
\* currency of first (no currency included); when the currency of a value
\* differs it returns a different-currencies error and no sum.
C25_Sum ==
    ret.op = "Sum" =>
        LET differing == {i \in 1..Len(args.values) : args.values[i].currency # args.first.currency}
        IN  /\ ret.err = NoError <=> differing = {}
            /\ differing = {} =>
                  /\ ret.val.currency = args.first.currency
                  /\ Units(ret.val.amount) = Units(args.first.amount) + UnitsFrom(args.values, 1)
            /\ differing # {} =>
                  /\ ret.val = ZeroValue
                  /\ \E i \in differing :
                        /\ \A j \in differing : i <= j
                        /\ ret.err = ErrorDifferentCurrencies(args.first.currency,
                                                              args.values[i].currency)

\* Sum has failed for values of which only the last has another currency, no
\* currency, than first.
C25_Witness ==
    /\ ret.op = "Sum"
    /\ Len(args.values) = MaxValues
    /\ args.first.currency # Nil
    /\ args.values[1].currency = args.first.currency
    /\ args.values[MaxValues].currency = Nil
    /\ ret.err = ErrorDifferentCurrencies(args.first.currency, Nil)

\* Sum has added values of one currency and different exponents.
C25_Summed ==
    /\ ret.op = "Sum"
    /\ ret.err = NoError
    /\ Len(args.values) = MaxValues
    /\ args.first.currency # Nil
    /\ args.values[1].amount.exp # args.first.amount.exp
    /\ ret.val.amount.value # 0

(***************************************************************************)
(* Properties of the data bindings.                                        *)
(***************************************************************************)
RoundTrips == {"RoundTripJSON", "RoundTripBinary", "RoundTripText"}

\* The decoded Value has the amount and the currency of the encoded one.
RoundTripped ==
    /\ ret.err = NoError
    /\ Units(ret.out.amount) = Units(args.v.amount)
    /\ ret.out.currency = args.v.currency

Registered(c) == c \in cc.hasCurrency

Decoders == {"UnmarshalJSON", "UnmarshalBinary", "UnmarshalText", "GobDecode", "Scan"}

\* C7: when a decoder (UnmarshalJSON, UnmarshalBinary, UnmarshalText,
\* GobDecode, Scan) returns an error, the destination Value holds the amount
\* and the currency it held before the call.
C7_FailedDecodeKeepsDestination ==
    (ret.op \in Decoders /\ ret.err # NoError) => dst = ret.v

\* The decoders that assign the destination after the last check do keep it.
C7_FailedDecodeKeepsDestinationAtomic ==
    (ret.op \in {"UnmarshalJSON", "UnmarshalText", "Scan"} /\ ret.err # NoError) => dst = ret.v

\* The four bytes of a unique ID of -256..255, most significant byte first,
\* in two's complement.
IDPrefix(uniqueID) ==
    IF uniqueID >= 0 THEN <<0, 0, 0, uniqueID>> ELSE <<255, 255, 255, 256 + uniqueID>>

NoCurrencyPrefix == <<0, 0, 0, 0>>

\* The encoding is the unique ID of the currency (0 without currency) in 4
\* bytes and then the encoding of the decimal.
EncodesIDAndDecimal ==
    ret.op = "MarshalBinary" =>
        /\ SubSeq(ret.data, 1, 4)
              = IDPrefix(IF args.v.currency # Nil THEN UniqueID(args.v.currency) ELSE 0)
        /\ SubSeq(ret.data, 5, Len(ret.data)) = DecMarshalBinary(args.v.amount)

\* Input of less than 4 bytes fails; a zero prefix yields no currency; a
\* non-zero prefix yields the registered currency of that unique ID, or the
\* error that there is none.
DecodesPrefix ==
    ret.op = "UnmarshalBinary" =>
        IF Len(ret.data) < 4
        THEN ret.err # NoError
        ELSE LET prefix == SubSeq(ret.data, 1, 4)
                 known == {c \in cc.hasCurrency : IDPrefix(UniqueID(c)) = prefix}
             IN  /\ prefix = NoCurrencyPrefix => dst.currency = Nil
                 /\ (prefix # NoCurrencyPrefix /\ known # {}) => dst.currency \in known
                 /\ (prefix # NoCurrencyPrefix /\ known = {}) =>
                        /\ ret.err.kind = "ErrorCantFindUniqueID"
                        /\ IDPrefix(ret.err.uniqueID) = prefix
                 /\ (prefix = NoCurrencyPrefix \/ known # {}) =>
                        ret.err = DecUnmarshalBinary(ret.v.amount, SubSeq(ret.data, 5, Len(ret.data))).err

C18_NotFound ==
    /\ ret.op = "UnmarshalBinary"
    /\ ret.err.kind = "ErrorCantFindUniqueID"
    /\ dst = ret.v

(***************************************************************************)
(* Properties of the text decoding.                                        *)
(***************************************************************************)
TextDecoders == {"FromString", "UnmarshalText"}

\* The positions of the separators of the string.
SeparatorsAt(str) == {i \in 1..Len(str) : str[i] \in Separators}

\* The text before and the text after the only separator of the string.
AmountText(str) ==
    IF SeparatorsAt(str) = {} THEN str
    ELSE SubSeq(str, 1, (CHOOSE i \in SeparatorsAt(str) : TRUE) - 1)

CodeText(str) ==
    Spelled(SubSeq(str, (CHOOSE i \in SeparatorsAt(str) : TRUE) + 1, Len(str)))

\* The registered currencies of a unique code.
Resolved(uniqueCode) == {c \in cc.hasCurrency : UniqueCode(c) = uniqueCode}

\* The error is, or wraps, the error that no currency of the unique code
\* can be found.
CantFindUniqueCode(err, uniqueCode) ==
    \/ err = ErrorCantFindUniqueCode(uniqueCode)
    \/ Unwrap(err) = ErrorCantFindUniqueCode(uniqueCode)

\* The Value that the last call has yielded: the result of FromString, or
\* the destination of UnmarshalText.
Yielded == IF ret.op = "FromString" THEN ret.v ELSE dst

\* The last call has yielded no Value: FromString has returned the zero
\* Value, UnmarshalText has left its destination as it was.
YieldedNothing == IF ret.op = "FromString" THEN ret.v = ZeroValue ELSE dst = ret.v

\* C19: FromString and UnmarshalText accept only "Amount" and
\* "Amount SEP UniqueCode", where SEP is a space or a non-breaking space: a
\* string of more than one separator fails; a string of one separator fails
\* with a cannot-find-unique-code error when its code is of no registered
\* currency, and otherwise yields the amount and that currency when the
\* amount is well-formed; a string of no separator yields the amount without
\* currency; a failed call yields no Value.
C19_TextDecoding ==
    ret.op \in TextDecoders =>
        LET str == args.str
            seps == Cardinality(SeparatorsAt(str))
            amount == DecNewFromString(AmountText(str))
        IN  /\ seps > 1 => ret.err # NoError
            /\ (seps = 1 /\ Resolved(CodeText(str)) = {}) => CantFindUniqueCode(ret.err, CodeText(str))
            /\ (seps = 1 /\ Resolved(CodeText(str)) # {}) =>
                  /\ ret.err = NoError <=> amount.err = NoError
                  /\ ret.err = NoError =>
                        /\ Yielded.currency \in Resolved(CodeText(str))
                        /\ Yielded.amount = amount.d
            /\ seps = 0 =>
                  /\ ret.err = NoError <=> amount.err = NoError
                  /\ ret.err = NoError => Yielded = Val(amount.d, Nil)
            /\ ret.err # NoError => YieldedNothing

\* UnmarshalText has decoded an amount and a unique code that a non-breaking
\* space separates into a destination of another value.
C19_Witness ==
    /\ ret.op = "UnmarshalText"
    /\ ret.err = NoError
    /\ SeparatorsAt(args.str) # {}
    /\ \A i \in SeparatorsAt(args.str) : args.str[i] = NBSP
    /\ dst.currency = "currencyNegativeID"
    /\ dst # ret.v

\* FromString has failed for a string of two separators whose first two
\* fields are a well-formed amount and a registered unique code.
C19_TooManySeparators ==
    /\ ret.op = "FromString"
    /\ ret.err # NoError
    /\ Cardinality(SeparatorsAt(args.str)) = 2
    /\ args.str[1] = "5"
    /\ \E c \in cc.hasCurrency : args.str[3] = UniqueCode(c)

\* UnmarshalText has failed for an unregistered unique code with a
\* destination that held a value.
C19_CodeNotFound ==
    /\ ret.op = "UnmarshalText"
    /\ Unwrap(ret.err).kind = "ErrorCantFindUniqueCode"
    /\ dst = ret.v
    /\ dst # ZeroValue

(***************************************************************************)
(* Properties of the database bindings.                                    *)
(***************************************************************************)
\* Scan has yielded the amount and the currency of the Value.
Scanned ==
    /\ ret.err = NoError
    /\ Units(dst.amount) = Units(args.v.amount)
    /\ dst.currency = args.v.currency

DecodesNoCurrency ==
    (/\ ret.op = "UnmarshalJSON"
     /\ ret.data.ok
     /\ "Currency" \notin DOMAIN ret.data.members
     /\ ret.err = NoError)
        => dst.currency = Nil

\* C21: the JSON encoding of a Value without currency has the Amount member
\* only, and no Currency member; decoding a document without a Currency
\* member yields a Value without currency.
C21_JSONWithoutCurrency ==
    /\ (ret.op = "MarshalJSON" /\ args.v.currency = Nil) =>
          ret.data = JSONObject([Amount |-> DecString(args.v.amount)])
    /\ DecodesNoCurrency

\* The decoding half of C21 by itself, for documents with and without an
\* Amount member and destinations that hold a currency.
C21_DecodeWithoutCurrency == DecodesNoCurrency

\* A document without a Currency member was decoded into a destination that
\* held a currency.
C21_DecodedWithoutCurrency ==
    /\ ret.op = "UnmarshalJSON"
    /\ ret.data.ok
    /\ "Currency" \notin DOMAIN ret.data.members
    /\ ret.err = NoError
    /\ ret.v.currency # Nil
    /\ dst.currency = Nil

(***************************************************************************)
(* Properties of FromStringAndCurrency.                                    *)
(***************************************************************************)
\* C24: FromStringAndCurrency(str, cur) of a string that holds only an
\* amount returns the amount with cur, which may be no currency; of a string
\* that holds an amount and a unique code it succeeds exactly when cur is a
\* currency of that unique code, registered or not, and fails otherwise, also
\* when cur is no currency; a returned Value carries no currency but cur.
C24_FromStringAndCurrency ==
    ret.op = "FromStringAndCurrency" =>
        LET str == args.str
            seps == Cardinality(SeparatorsAt(str))
            amount == DecNewFromString(AmountText(str))
        IN  /\ (seps = 0 /\ amount.err = NoError) =>
                  /\ ret.err = NoError
                  /\ ret.v = Val(amount.d, args.cur)
            /\ (seps = 1 /\ amount.err = NoError) =>
                  /\ ret.err = NoError
                        <=> (args.cur # Nil /\ UniqueCode(args.cur) = CodeText(str))
                  /\ ret.err = NoError => ret.v = Val(amount.d, args.cur)
            /\ ret.err = NoError => ret.v.currency = args.cur
            /\ ret.err # NoError => ret.v = ZeroValue

\* The call has succeeded for a string with the unique code of the given
\* currency, which is not registered, while another currency of that unique
\* code is.
C24_Witness ==
    /\ ret.op = "FromStringAndCurrency"
    /\ ret.err = NoError
    /\ SeparatorsAt(args.str) # {}
    /\ args.cur # Nil
    /\ ~Registered(args.cur)
    /\ Resolved(CodeText(args.str)) # {}
    /\ ret.v.currency = args.cur

\* The call has failed for a string with the unique code of a registered
\* currency and a well-formed amount, because no currency was given.
C24_FailsWithoutCurrency ==
    /\ ret.op = "FromStringAndCurrency"
    /\ ret.err # NoError
    /\ args.cur = Nil
    /\ Cardinality(SeparatorsAt(args.str)) = 1
    /\ Resolved(CodeText(args.str)) # {}
    /\ DecNewFromString(AmountText(args.str)).err = NoError

(***************************************************************************)
(* Properties of ValidateCurrency.                                         *)
(***************************************************************************)
\* Exactly one of the symbol and the narrow symbol of the currency is empty.
OneSymbolEmpty == (args.c.symbol = "") # (args.c.narrowSymbol = "")

BothSymbolsEmpty == args.c.symbol = "" /\ args.c.narrowSymbol = ""

\* The currency is legal in all but its symbols.
LegalButSymbols ==
    /\ args.c.uniqueID # 0
    /\ args.c.standard = <<"F", "O", "O">>
    /\ args.c.code = <<"B", "A", "R">>
    /\ args.c.uniqueCode = <<"F", "O", "O", "-", "B", "A", "R">>
    /\ IF args.c.hasSmallestUnit THEN args.c.decimalPlaces >= 0 ELSE args.c.decimalPlaces = -1

InvalidCurrency == ret.err.kind = "ErrorInvalidCurrency"

\* C26 as stated: ValidateCurrency accepts the symbols only when the symbol
\* and the narrow symbol are both non-empty: it returns an invalid-currency
\* error when exactly one of them is empty and when both are empty.
C26_SymbolsBothNonEmpty ==
    ret.op = "ValidateCurrency" =>
        /\ (OneSymbolEmpty \/ BothSymbolsEmpty) => InvalidCurrency
        /\ (LegalButSymbols /\ ~OneSymbolEmpty /\ ~BothSymbolsEmpty) => ret.err = NoError

\* C26, amended: ValidateCurrency returns an invalid-currency error when
\* exactly one of the symbol and the narrow symbol is empty; it accepts the
\* symbols when both are non-empty, equal or not, and when both are empty.
C26_Symbols ==
    ret.op = "ValidateCurrency" =>
        /\ OneSymbolEmpty => InvalidCurrency
        /\ (LegalButSymbols /\ ~OneSymbolEmpty) => ret.err = NoError

\* A currency of an empty symbol and an empty narrow symbol was accepted.
C26_Witness ==
    /\ ret.op = "ValidateCurrency"
    /\ BothSymbolsEmpty
    /\ ret.err = NoError

\* A currency that is legal but for its empty narrow symbol was refused.
C26_OneEmptyRefused ==
    /\ ret.op = "ValidateCurrency"
    /\ LegalButSymbols
    /\ args.c.symbol # ""
    /\ args.c.narrowSymbol = ""
    /\ InvalidCurrency


(* Properties of the unique ID 0. *)

\* C30: unique ID 0 is never assigned to a registered currency: after any
\* sequence of Add calls ByUniqueID(0) returns no currency and no registered
\* currency has the unique ID 0.
C30_NoUniqueIDZero ==
    /\ ByUniqueID(cc, 0) = Nil
    /\ \A c \in cc.hasCurrency : UniqueID(c) # 0

\* ValidateCurrency returns an invalid-currency error for every currency
\* with the unique ID 0.
C30_ValidateRefusesZero ==
    (ret.op = "ValidateCurrency" /\ args.c.uniqueID = 0) => InvalidCurrency

\* ValidateCurrency has refused an otherwise legal currency with the unique
\* ID 0.
C30_ZeroRefused ==
    /\ ret.op = "ValidateCurrency"
    /\ args.c.uniqueID = 0
    /\ InvalidCurrency
    /\ ValidateCurrency([args.c EXCEPT !.uniqueID = 1]) = NoError

====
